---------------------------- MODULE Spec2Model ----------------------------
(***************************************************************************)
(* A model of brainbug: the lexer (common.rs), the jump table, the         *)
(* concrete interpreter and the partial evaluator (interp.rs), the two     *)
(* loop rewriters and the semantics of the code compile_to_asm emits       *)
(* (compile.rs).                                                           *)
(***************************************************************************)
EXTENDS Integers, Sequences, FiniteSets, TLC

VARIABLES
    phase,      \* position in the pipeline being exercised
    source,     \* the source text handed to lex, a sequence of characters
    program,    \* the instruction vector (lex's insts, the rewriters' program)
    input,      \* the instruction vector as it was before any rewriting
    machine,    \* the running compiled code: tape slab, %r12, position, stdout
    reference,  \* what a run is compared against: a machine, a state at loop entry
    state,      \* interp.rs State: tape, head, program counter, jump table, snapshot
    emitted_insts, \* the instruction buffer partial_eval emits into
    io          \* the reader's bytes as consumed so far and the writer's bytes

vars == <<phase, source, program, input, machine, reference, state, emitted_insts, io>>

(***************************************************************************)
(* Bounds of the model.                                                    *)
(***************************************************************************)
MaxSrcLen == 3
MaxProgLen == 4
MaxBodyLen == 5
MaxPasses == 2
MaxLoopBody == 4
MemRadius == 5
MaxEvalLen == 3
MaxTape == 8
MaxExec == 260
MaxEmitted == 10
MaxJumpLen == 5
MaxOutput == 8
MaxProfileBody == 3
MaxExitStatus == 2
MaxNestedBody == 2
MaxSegments == 3

SeqsUpTo(S, n) == UNION {[1..k -> S] : k \in 0..n}

(***************************************************************************)
(* common.rs: enum Instruction.  Every instruction is a record with the    *)
(* same fields so that instruction vectors are comparable.                 *)
(***************************************************************************)
Ins(o, x, y) == [op |-> o, a |-> x, b |-> y]

MoveRight == Ins("MoveRight", 0, 0)
MoveLeft == Ins("MoveLeft", 0, 0)
Increment == Ins("Increment", 0, 0)
Decrement == Ins("Decrement", 0, 0)
Write == Ins("Write", 0, 0)
Read == Ins("Read", 0, 0)
JumpIfZero == Ins("JumpIfZero", 0, 0)
JumpUnlessZero == Ins("JumpUnlessZero", 0, 0)
Zero == Ins("Zero", 0, 0)
Add(offset) == Ins("Add", offset, 0)
Sub(offset) == Ins("Sub", offset, 0)
Scan(x) == Ins("Scan", x, 0)
SetHeadPos(x) == Ins("SetHeadPos", x, 0)
SetCell(pos, val) == Ins("SetCell", pos, val)
Output(val) == Ins("Output", val, 0)
Nop == Ins("Nop", 0, 0)

Primitives ==
    {MoveRight, MoveLeft, Increment, Decrement, Write, Read, JumpIfZero, JumpUnlessZero}

(***************************************************************************)
(* common.rs: lex.  lex_char is one iteration of the loop over the         *)
(* characters of the source; lex is the whole loop.                        *)
(***************************************************************************)
lex_char_pushes_nop(insts, c) ==
    CASE c = ">" -> Append(insts, MoveRight)
      [] c = "<" -> Append(insts, MoveLeft)
      [] c = "+" -> Append(insts, Increment)
      [] c = "-" -> Append(insts, Decrement)
      [] c = "." -> Append(insts, Write)
      [] c = "," -> Append(insts, Read)
      [] c = "[" -> Append(insts, JumpIfZero)
      [] c = "]" -> Append(insts, JumpUnlessZero)
      [] OTHER -> Append(insts, Nop)

lex_char(insts, c) ==
    CASE c = ">" -> Append(insts, MoveRight)
      [] c = "<" -> Append(insts, MoveLeft)
      [] c = "+" -> Append(insts, Increment)
      [] c = "-" -> Append(insts, Decrement)
      [] c = "." -> Append(insts, Write)
      [] c = "," -> Append(insts, Read)
      [] c = "[" -> Append(insts, JumpIfZero)
      [] c = "]" -> Append(insts, JumpUnlessZero)
      [] OTHER -> insts

RECURSIVE lex_from(_, _, _)
lex_from(src, i, insts) ==
    IF i > Len(src) THEN insts ELSE lex_from(src, i + 1, lex_char(insts, src[i]))

lex(src) == lex_from(src, 1, <<>>)

(***************************************************************************)
(* Vectors are indexed from 0 in the source and from 1 here: At(v, pc) is  *)
(* v[pc] of the source, Put(v, pc, x) is v[pc] = x.                        *)
(***************************************************************************)
At(v, pc) == v[pc + 1]
Put(v, pc, x) == [v EXCEPT ![pc + 1] = x]
InRange(v, pc) == pc >= 0 /\ pc < Len(v)

Abs(x) == IF x < 0 THEN -x ELSE x

RECURSIVE Repeat(_, _)
Repeat(x, n) == IF n <= 0 THEN <<>> ELSE <<x>> \o Repeat(x, n - 1)

Min(S) == CHOOSE x \in S : \A y \in S : x <= y

RECURSIVE Sorted(_)
Sorted(S) == IF S = {} THEN <<>> ELSE <<Min(S)>> \o Sorted(S \ {Min(S)})

(***************************************************************************)
(* compile.rs: struct LoopState and the HashMap ptr_changes.               *)
(***************************************************************************)
EmptyMap == [k \in {} |-> 0]

LoopState(start, delta, changes) ==
    [start_pc |-> start, head_delta |-> delta, ptr_changes |-> changes]

\* *ptr_changes.entry(k).or_insert(0) += d
entry_add(m, k, d) ==
    [x \in DOMAIN m \cup {k} |-> IF x = k THEN (IF k \in DOMAIN m THEN m[k] ELSE 0) + d ELSE m[x]]

(***************************************************************************)
(* compile.rs: simplify_loops.  The pass state is the program being        *)
(* rewritten in place, the in_loop flag and curr_loop; panicked records an  *)
(* out-of-range write (a Rust panic).                                      *)
(***************************************************************************)
\* Five copies more than the net change.
loop_offset_insts_five_more(decrement_loop, head_delta, value_delta) ==
    Repeat(IF decrement_loop
             THEN (IF value_delta > 0 THEN Add(head_delta) ELSE Sub(head_delta))
             ELSE (IF value_delta > 0 THEN Sub(head_delta) ELSE Add(head_delta)),
           Abs(value_delta) + 5)

\* The Add/Sub copies written for one offset (lines 216-234).
loop_offset_insts_same_sign(decrement_loop, head_delta, value_delta) ==
    Repeat(IF value_delta > 0 THEN Add(head_delta) ELSE Sub(head_delta), Abs(value_delta))

loop_offset_insts(decrement_loop, head_delta, value_delta) ==
    Repeat(IF decrement_loop
             THEN (IF value_delta > 0 THEN Add(head_delta) ELSE Sub(head_delta))
             ELSE (IF value_delta > 0 THEN Sub(head_delta) ELSE Add(head_delta)),
           Abs(value_delta))

loop_insts_as_primitives(decrement_loop, head_deltas, ptr_changes) ==
    [k \in 1..(Len(head_deltas) - 1) |-> IF decrement_loop THEN Increment ELSE Decrement]

RECURSIVE loop_insts(_, _, _)
loop_insts(decrement_loop, head_deltas, ptr_changes) ==
    IF head_deltas = <<>> THEN <<>>
    ELSE LET d == Head(head_deltas) IN
         (IF d = 0 THEN <<>> ELSE loop_offset_insts(decrement_loop, d, ptr_changes[d]))
            \o loop_insts(decrement_loop, Tail(head_deltas), ptr_changes)

RECURSIVE write_from(_, _, _)
write_from(st, write_pc, xs) ==
    IF xs = <<>> THEN st
    ELSE IF ~InRange(st.program, write_pc) THEN [st EXCEPT !.panicked = TRUE]
    ELSE write_from([st EXCEPT !.program = Put(@, write_pc, Head(xs))], write_pc + 1, Tail(xs))

\* Lines 200-237: the loop in slots start_pc..pc meets the commit conditions.
commit_loop_nops_one_more(st, pc) ==
    LET l == st.curr_loop
        decrement_loop == l.ptr_changes[0] = -1
        nopped == [i \in 1..Len(st.program) |->
                      IF i - 1 >= l.start_pc /\ i - 1 < pc + 2 THEN Nop ELSE st.program[i]]
        head_deltas == Sorted(DOMAIN l.ptr_changes)
    IN write_from([st EXCEPT !.program = nopped], l.start_pc,
                  loop_insts(decrement_loop, head_deltas, l.ptr_changes) \o <<Zero>>)

commit_loop(st, pc) ==
    LET l == st.curr_loop
        decrement_loop == l.ptr_changes[0] = -1
        nopped == [i \in 1..Len(st.program) |->
                      IF i - 1 >= l.start_pc /\ i - 1 < pc + 1 THEN Nop ELSE st.program[i]]
        head_deltas == Sorted(DOMAIN l.ptr_changes)
    IN write_from([st EXCEPT !.program = nopped], l.start_pc,
                  loop_insts(decrement_loop, head_deltas, l.ptr_changes) \o <<Zero>>)

\* Lines 191-198: the conditions under which JumpUnlessZero commits.
commit_conditions_any_index_delta(l) ==
    /\ l.head_delta = 0
    /\ 0 \in DOMAIN l.ptr_changes

commit_conditions(l) ==
    /\ l.head_delta = 0
    /\ 0 \in DOMAIN l.ptr_changes
    /\ (l.ptr_changes[0] = 1 \/ l.ptr_changes[0] = -1)

simplify_loops_step_keeps_outer_loop(st, pc) ==
    LET inst == At(st.program, pc)
        l == st.curr_loop
    IN CASE inst = JumpIfZero ->
              IF st.in_loop THEN st
              ELSE [st EXCEPT !.curr_loop = LoopState(pc, 0, EmptyMap), !.in_loop = TRUE]
         [] inst = JumpUnlessZero ->
              IF st.in_loop
                THEN IF commit_conditions(l)
                       THEN commit_loop([st EXCEPT !.in_loop = FALSE], pc)
                       ELSE [st EXCEPT !.in_loop = FALSE]
                ELSE st
         [] inst = Read \/ inst = Write -> [st EXCEPT !.in_loop = FALSE]
         [] inst = MoveLeft ->
              IF st.in_loop THEN [st EXCEPT !.curr_loop.head_delta = @ - 1] ELSE st
         [] inst = MoveRight ->
              IF st.in_loop THEN [st EXCEPT !.curr_loop.head_delta = @ + 1] ELSE st
         [] inst = Increment ->
              IF st.in_loop
                THEN [st EXCEPT !.curr_loop.ptr_changes = entry_add(@, l.head_delta, 1)]
                ELSE st
         [] inst = Decrement ->
              IF st.in_loop
                THEN [st EXCEPT !.curr_loop.ptr_changes = entry_add(@, l.head_delta, -1)]
                ELSE st
         [] OTHER -> [st EXCEPT !.in_loop = FALSE]

\* A pass whose last arm (line 269) leaves in_loop alone.
simplify_loops_step_ignores_other_opcodes(st, pc) ==
    LET inst == At(st.program, pc)
        l == st.curr_loop
    IN CASE inst = JumpIfZero ->
              [st EXCEPT !.curr_loop = LoopState(pc, 0, EmptyMap), !.in_loop = TRUE]
         [] inst = JumpUnlessZero ->
              IF st.in_loop
                THEN IF commit_conditions(l)
                       THEN commit_loop([st EXCEPT !.in_loop = FALSE], pc)
                       ELSE [st EXCEPT !.in_loop = FALSE]
                ELSE st
         [] inst = Read \/ inst = Write -> [st EXCEPT !.in_loop = FALSE]
         [] inst = MoveLeft ->
              IF st.in_loop THEN [st EXCEPT !.curr_loop.head_delta = @ - 1] ELSE st
         [] inst = MoveRight ->
              IF st.in_loop THEN [st EXCEPT !.curr_loop.head_delta = @ + 1] ELSE st
         [] inst = Increment ->
              IF st.in_loop
                THEN [st EXCEPT !.curr_loop.ptr_changes = entry_add(@, l.head_delta, 1)]
                ELSE st
         [] inst = Decrement ->
              IF st.in_loop
                THEN [st EXCEPT !.curr_loop.ptr_changes = entry_add(@, l.head_delta, -1)]
                ELSE st
         [] OTHER -> st

\* One iteration of the loop over pc (lines 173-271).
simplify_loops_step(st, pc) ==
    LET inst == At(st.program, pc)
        l == st.curr_loop
    IN CASE inst = JumpIfZero ->
              [st EXCEPT !.curr_loop = LoopState(pc, 0, EmptyMap), !.in_loop = TRUE]
         [] inst = JumpUnlessZero ->
              IF st.in_loop
                THEN IF commit_conditions(l)
                       THEN commit_loop([st EXCEPT !.in_loop = FALSE], pc)
                       ELSE [st EXCEPT !.in_loop = FALSE]
                ELSE st
         [] inst = Read \/ inst = Write -> [st EXCEPT !.in_loop = FALSE]
         [] inst = MoveLeft ->
              IF st.in_loop THEN [st EXCEPT !.curr_loop.head_delta = @ - 1] ELSE st
         [] inst = MoveRight ->
              IF st.in_loop THEN [st EXCEPT !.curr_loop.head_delta = @ + 1] ELSE st
         [] inst = Increment ->
              IF st.in_loop
                THEN [st EXCEPT !.curr_loop.ptr_changes = entry_add(@, l.head_delta, 1)]
                ELSE st
         [] inst = Decrement ->
              IF st.in_loop
                THEN [st EXCEPT !.curr_loop.ptr_changes = entry_add(@, l.head_delta, -1)]
                ELSE st
         [] OTHER -> [st EXCEPT !.in_loop = FALSE]

RECURSIVE simplify_loops_from(_, _)
simplify_loops_from(st, pc) ==
    IF pc >= Len(st.program) \/ st.panicked THEN st
    ELSE simplify_loops_from(simplify_loops_step(st, pc), pc + 1)

simplify_loops_run(prog) ==
    simplify_loops_from([program |-> prog, in_loop |-> FALSE,
                         curr_loop |-> LoopState(0, 0, EmptyMap), panicked |-> FALSE], 0)

simplify_loops(prog) == simplify_loops_run(prog).program

(***************************************************************************)
(* compile.rs: vectorize_scans.                                            *)
(***************************************************************************)
scan_commit_appends(st, pc) ==
    [st EXCEPT !.program =
        Append([i \in 1..Len(@) |->
            IF i - 1 = st.start_pc THEN Scan(st.head_delta)
            ELSE IF i - 1 > st.start_pc /\ i - 1 < pc + 1 THEN Nop ELSE @[i]], Nop)]

scan_commit(st, pc) ==
    [st EXCEPT !.program =
        [i \in 1..Len(@) |->
            IF i - 1 = st.start_pc THEN Scan(st.head_delta)
            ELSE IF i - 1 > st.start_pc /\ i - 1 < pc + 1 THEN Nop ELSE @[i]]]

\* A pass whose last arm (line 323) leaves in_loop alone.
vectorize_scans_step_ignores_other_opcodes(st, pc) ==
    LET inst == At(st.program, pc) IN
    CASE inst = JumpIfZero ->
            [st EXCEPT !.in_loop = TRUE, !.head_delta = 0, !.start_pc = pc]
      [] inst = JumpUnlessZero ->
            IF st.in_loop
              THEN IF st.head_delta = 0
                     THEN [st EXCEPT !.in_loop = FALSE]
                     ELSE scan_commit([st EXCEPT !.in_loop = FALSE], pc)
              ELSE st
      [] inst = MoveLeft ->
            IF st.in_loop THEN [st EXCEPT !.head_delta = @ - 1] ELSE st
      [] inst = MoveRight ->
            IF st.in_loop THEN [st EXCEPT !.head_delta = @ + 1] ELSE st
      [] OTHER -> st

vectorize_scans_step_right_only(st, pc) ==
    LET inst == At(st.program, pc) IN
    CASE inst = JumpIfZero ->
            [st EXCEPT !.in_loop = TRUE, !.head_delta = 0, !.start_pc = pc]
      [] inst = JumpUnlessZero ->
            IF st.in_loop
              THEN IF st.head_delta < 1
                     THEN [st EXCEPT !.in_loop = FALSE]
                     ELSE scan_commit([st EXCEPT !.in_loop = FALSE], pc)
              ELSE st
      [] inst = MoveLeft ->
            IF st.in_loop THEN [st EXCEPT !.head_delta = @ - 1] ELSE st
      [] inst = MoveRight ->
            IF st.in_loop THEN [st EXCEPT !.head_delta = @ + 1] ELSE st
      [] OTHER -> [st EXCEPT !.in_loop = FALSE]

vectorize_scans_step(st, pc) ==
    LET inst == At(st.program, pc) IN
    CASE inst = JumpIfZero ->
            [st EXCEPT !.in_loop = TRUE, !.head_delta = 0, !.start_pc = pc]
      [] inst = JumpUnlessZero ->
            IF st.in_loop
              THEN IF st.head_delta = 0
                     THEN [st EXCEPT !.in_loop = FALSE]
                     ELSE scan_commit([st EXCEPT !.in_loop = FALSE], pc)
              ELSE st
      [] inst = MoveLeft ->
            IF st.in_loop THEN [st EXCEPT !.head_delta = @ - 1] ELSE st
      [] inst = MoveRight ->
            IF st.in_loop THEN [st EXCEPT !.head_delta = @ + 1] ELSE st
      [] OTHER -> [st EXCEPT !.in_loop = FALSE]

RECURSIVE vectorize_scans_from(_, _)
vectorize_scans_from(st, pc) ==
    IF pc >= Len(st.program) THEN st
    ELSE vectorize_scans_from(vectorize_scans_step(st, pc), pc + 1)

vectorize_scans(prog) ==
    vectorize_scans_from([program |-> prog, in_loop |-> FALSE,
                          head_delta |-> 0, start_pc |-> 0], 0).program

(***************************************************************************)
(* compile.rs: the code compile_to_asm emits, as a machine.  mem is the    *)
(* window of the runner's zero-initialised slab the model tracks, indexed  *)
(* relative to the tape origin %r13; r12 is the head register relative to  *)
(* %r13; pc is the index of the next instruction's code; out is stdout.    *)
(* The model never writes or parks the head outside the window, so every   *)
(* cell outside it still holds the 0 calloc put there.                     *)
(***************************************************************************)
Addr == (0 - MemRadius)..(MemRadius + 1)

MemAt(mem, a) == IF a \in DOMAIN mem THEN mem[a] ELSE 0

\* label_stack (lines 350, 366, 382): the JumpIfZero whose label number a
\* JumpUnlessZero pops, and so the pairing of .IZn/.UZn labels.
RECURSIVE label_pairs_from(_, _, _, _)
label_pairs_from(prog, pc, label_stack, pairs) ==
    IF pc >= Len(prog) THEN [pairs |-> pairs, label_stack |-> label_stack, panicked |-> FALSE]
    ELSE IF At(prog, pc) = JumpIfZero
           THEN label_pairs_from(prog, pc + 1, Append(label_stack, pc), pairs)
    ELSE IF At(prog, pc) = JumpUnlessZero
           THEN IF label_stack = <<>>
                  THEN [pairs |-> pairs, label_stack |-> label_stack, panicked |-> TRUE]
                  ELSE label_pairs_from(prog, pc + 1,
                           SubSeq(label_stack, 1, Len(label_stack) - 1),
                           pairs \cup {<<label_stack[Len(label_stack)], pc>>})
    ELSE label_pairs_from(prog, pc + 1, label_stack, pairs)

label_pairs(prog) == label_pairs_from(prog, 0, <<>>, {})

\* je .UZn lands behind the paired JumpUnlessZero, jne .IZn behind the JumpIfZero.
label_UZ(prog, pc) == (CHOOSE pr \in label_pairs(prog).pairs : pr[1] = pc)[2] + 1
label_IZ(prog, pc) == (CHOOSE pr \in label_pairs(prog).pairs : pr[2] = pc)[1] + 1
has_label(prog, pc) == \E pr \in label_pairs(prog).pairs : pr[1] = pc \/ pr[2] = pc

\* What one instruction's code says about labels: the label it branches to
\* and the label it defines, each a prefix and a label number.
NoLabels == [branch |-> <<>>, defines |-> <<>>]

\* The Scan arm without line 407's curr_label_num += 1.
asm_labels_step_scan_keeps_counter(e, inst) ==
    IF e.panicked THEN e
    ELSE IF inst = JumpIfZero
           THEN LET new_label_num == e.curr_label_num
                IN [e EXCEPT !.curr_label_num = @ + 1,
                             !.label_stack = Append(@, new_label_num),
                             !.labels = Append(@, [branch |-> <<".UZ", new_label_num>>,
                                                   defines |-> <<".IZ", new_label_num>>])]
    ELSE IF inst = JumpUnlessZero
           THEN IF e.label_stack = <<>> THEN [e EXCEPT !.panicked = TRUE]
                ELSE LET label_num == e.label_stack[Len(e.label_stack)]
                     IN [e EXCEPT !.label_stack = SubSeq(@, 1, Len(@) - 1),
                                  !.labels = Append(@, [branch |-> <<".IZ", label_num>>,
                                                        defines |-> <<".UZ", label_num>>])]
    ELSE IF inst.op = "Scan"
           THEN LET label_num == e.curr_label_num
                IN [e EXCEPT !.labels = Append(@, [branch |-> <<".SCAN", label_num>>,
                                                   defines |-> <<".SCAN", label_num>>])]
    ELSE [e EXCEPT !.labels = Append(@, NoLabels)]

\* compile_to_asm, lines 349-350, 363-390 and 404-409, 451-495: one turn of
\* the loop over the instructions, as far as labels go.  JumpIfZero takes
\* the counter's number and pushes it, JumpUnlessZero pops (unwrap panics
\* on an empty stack), Scan takes the counter's number for its own label.
asm_labels_step(e, inst) ==
    IF e.panicked THEN e
    ELSE IF inst = JumpIfZero
           THEN LET new_label_num == e.curr_label_num
                IN [e EXCEPT !.curr_label_num = @ + 1,
                             !.label_stack = Append(@, new_label_num),
                             !.labels = Append(@, [branch |-> <<".UZ", new_label_num>>,
                                                   defines |-> <<".IZ", new_label_num>>])]
    ELSE IF inst = JumpUnlessZero
           THEN IF e.label_stack = <<>> THEN [e EXCEPT !.panicked = TRUE]
                ELSE LET label_num == e.label_stack[Len(e.label_stack)]
                     IN [e EXCEPT !.label_stack = SubSeq(@, 1, Len(@) - 1),
                                  !.labels = Append(@, [branch |-> <<".IZ", label_num>>,
                                                        defines |-> <<".UZ", label_num>>])]
    ELSE IF inst.op = "Scan"
           THEN LET label_num == e.curr_label_num
                IN [e EXCEPT !.curr_label_num = @ + 1,
                             !.labels = Append(@, [branch |-> <<".SCAN", label_num>>,
                                                   defines |-> <<".SCAN", label_num>>])]
    ELSE [e EXCEPT !.labels = Append(@, NoLabels)]

RECURSIVE asm_labels_from(_, _, _)
asm_labels_from(e, prog, pc) ==
    IF pc >= Len(prog) \/ e.panicked THEN e
    ELSE asm_labels_from(asm_labels_step(e, At(prog, pc)), prog, pc + 1)

\* The labels of the whole emitted text, one entry per instruction.
asm_labels(prog) ==
    asm_labels_from([curr_label_num |-> 0, label_stack |-> <<>>,
                     labels |-> <<>>, panicked |-> FALSE], prog, 0)

\* tzcntl: the index of the lowest set bit of a 32-bit mask, 32 when it is 0.
tzcnt32(mask) ==
    IF mask = 0 THEN 32
    ELSE CHOOSE k \in 0..31 : (mask \div (2 ^ k)) % 2 = 1 /\ mask % (2 ^ k) = 0

\* vpgatherdd + vpor + vpcmpeqb + vpmovmskb: bit 4*i is set when the low byte
\* of lane i is 0; the three upper bytes of a lane are forced to 0xff.
RECURSIVE lane_mask(_, _, _, _)
lane_mask(mem, rax, indices, i) ==
    IF i > 7 THEN 0
    ELSE (IF MemAt(mem, rax + indices[i + 1]) = 0 THEN 2 ^ (4 * i) ELSE 0)
            + lane_mask(mem, rax, indices, i + 1)

\* The scan kernel (lines 404-499): the head it leaves in %r12.
RECURSIVE scan_loop_pos(_, _, _)
scan_loop_pos(mem, rax, abs_scan) ==
    LET indices == [i \in 1..8 |-> (i - 1) * abs_scan]
        r8d == lane_mask(mem, rax, indices, 0)
        r9 == rax + (tzcnt32(r8d) \div 4) * abs_scan
    IN IF r8d # 0 THEN r9 ELSE scan_loop_pos(mem, rax + 8 * abs_scan, abs_scan)

RECURSIVE scan_loop_neg(_, _, _)
scan_loop_neg(mem, rax, abs_scan) ==
    LET indices == [i \in 1..8 |-> (8 - i) * abs_scan]
        edx == lane_mask(mem, rax, indices, 0)
        r8 == (tzcnt32(edx) \div 4) * abs_scan
        r9 == (rax - r8) + 7 * abs_scan
    IN IF edx # 0 THEN r9 ELSE scan_loop_neg(mem, rax - 8 * abs_scan, abs_scan)

scan_kernel_skips_first(mem, r12, x) ==
    IF x >= 0 THEN scan_loop_pos(mem, r12 + x, Abs(x))
    ELSE scan_loop_neg(mem, (r12 + x) - 7 * Abs(x), Abs(x))

scan_kernel(mem, r12, x) ==
    IF x >= 0 THEN scan_loop_pos(mem, r12, Abs(x))
    ELSE scan_loop_neg(mem, r12 - 7 * Abs(x), Abs(x))

\* The code emitted for one instruction (lines 355-518); ch is what getchar
\* returns to READ_CHAR, as the byte %al holds.
asm_cell(m, a, v) ==
    [m EXCEPT !.mem = [x \in DOMAIN @ \cup {a} |-> IF x = a THEN v % 256 ELSE @[x]],
              !.pc = @ + 1]
asm_head(m, a) == [m EXCEPT !.r12 = a, !.pc = @ + 1]

asm_add_sub_swapped(m, inst) ==
    IF inst.op = "Add"
      THEN asm_cell(m, m.r12 + inst.a, (MemAt(m.mem, m.r12 + inst.a) + 256) - MemAt(m.mem, m.r12))
      ELSE asm_cell(m, m.r12 + inst.a, MemAt(m.mem, m.r12 + inst.a) + MemAt(m.mem, m.r12))

asm_add_sub(m, inst) ==
    IF inst.op = "Add"
      THEN asm_cell(m, m.r12 + inst.a, MemAt(m.mem, m.r12 + inst.a) + MemAt(m.mem, m.r12))
      ELSE asm_cell(m, m.r12 + inst.a, (MemAt(m.mem, m.r12 + inst.a) + 256) - MemAt(m.mem, m.r12))

asm_step(m, prog, ch) ==
    LET inst == At(prog, m.pc)
        cell == MemAt(m.mem, m.r12)
    IN CASE inst = MoveRight -> asm_head(m, m.r12 + 1)
         [] inst = MoveLeft -> asm_head(m, m.r12 - 1)
         [] inst = Increment -> asm_cell(m, m.r12, cell + 1)
         [] inst = Decrement -> asm_cell(m, m.r12, cell + 255)
         [] inst = Read -> asm_cell(m, m.r12, ch)
         [] inst = Write -> [m EXCEPT !.out = Append(@, cell), !.pc = @ + 1]
         [] inst = JumpIfZero ->
              [m EXCEPT !.pc = IF cell = 0 THEN label_UZ(prog, m.pc) ELSE @ + 1]
         [] inst = JumpUnlessZero ->
              [m EXCEPT !.pc = IF cell # 0 THEN label_IZ(prog, m.pc) ELSE @ + 1]
         [] inst = Zero -> asm_cell(m, m.r12, 0)
         [] inst.op \in {"Add", "Sub"} -> asm_add_sub(m, inst)
         [] inst.op = "Scan" -> asm_head(m, scan_kernel(m.mem, m.r12, inst.a))
         [] inst.op = "Output" -> [m EXCEPT !.out = Append(@, inst.a), !.pc = @ + 1]
         [] inst.op = "SetHeadPos" -> asm_head(m, inst.a)
         [] inst.op = "SetCell" -> asm_cell(m, inst.a, inst.b)
         [] OTHER -> [m EXCEPT !.pc = @ + 1]

\* The step stays inside the window of the slab the model tracks, and a jump
\* has its label.
asm_in_window(m, prog, ch) ==
    /\ m.pc < Len(prog)
    /\ At(prog, m.pc) \in {JumpIfZero, JumpUnlessZero} => has_label(prog, m.pc)
    /\ LET n == asm_step(m, prog, ch) IN
          /\ n.r12 \in Addr
          /\ DOMAIN n.mem = Addr

\* bf_main is entered with %r12 = %r13 = tape + 2000000 (lines 114-115).
asm_entry(mem, head) == [mem |-> mem, r12 |-> head, pc |-> 0, out |-> <<>>]

NoMachine == asm_entry([a \in Addr |-> 0], 0)

(***************************************************************************)
(* interp.rs: the jump table.  The searches index insts[pc] and panic when *)
(* pc leaves the vector (start_pc - 1 and pc -= 1 underflow usize at 0).   *)
(***************************************************************************)
RECURSIVE find_matching_jump_if_zero_from(_, _, _)
find_matching_jump_if_zero_from(program_, pc, brace_count) ==
    IF ~InRange(program_, pc) THEN [pc |-> pc, panicked |-> TRUE]
    ELSE LET count == CASE At(program_, pc) = JumpIfZero -> brace_count + 1
                        [] At(program_, pc) = JumpUnlessZero -> brace_count - 1
                        [] OTHER -> brace_count
         IN IF count = 0 THEN [pc |-> pc, panicked |-> FALSE]
            ELSE find_matching_jump_if_zero_from(program_, pc + 1, count)

find_matching_jump_if_zero(program_, start_pc) ==
    find_matching_jump_if_zero_from(program_, start_pc + 1, 1)

RECURSIVE find_matching_jump_unless_zero_from(_, _, _)
find_matching_jump_unless_zero_from(program_, pc, brace_count) ==
    IF ~InRange(program_, pc) THEN [pc |-> pc, panicked |-> TRUE]
    ELSE LET count == CASE At(program_, pc) = JumpUnlessZero -> brace_count + 1
                        [] At(program_, pc) = JumpIfZero -> brace_count - 1
                        [] OTHER -> brace_count
         IN IF count = 0 THEN [pc |-> pc, panicked |-> FALSE]
            ELSE find_matching_jump_unless_zero_from(program_, pc - 1, count)

find_matching_jump_unless_zero_nearest(program_, start_pc) ==
    LET opens == {k \in 0..(start_pc - 1) : At(program_, k) = JumpIfZero}
    IN IF opens = {} THEN [pc |-> 0 - 1, panicked |-> TRUE]
       ELSE [pc |-> CHOOSE k \in opens : \A j \in opens : j <= k, panicked |-> FALSE]

find_matching_jump_unless_zero(program_, start_pc) ==
    find_matching_jump_unless_zero_from(program_, start_pc - 1, 1)

\* One iteration of for pc in 0..insts.len(): jd is the table so far.
compute_jump_dests_step(program_, jd, pc) ==
    LET found == IF At(program_, pc) = JumpIfZero
                   THEN find_matching_jump_if_zero(program_, pc)
                   ELSE find_matching_jump_unless_zero(program_, pc)
    IN IF At(program_, pc) \notin {JumpIfZero, JumpUnlessZero} THEN jd
       ELSE IF found.panicked THEN [jd EXCEPT !.panicked = TRUE]
       ELSE [jd EXCEPT !.jump_dests = [k \in DOMAIN @ \cup {pc} |->
                                          IF k = pc THEN found.pc ELSE @[k]]]

RECURSIVE compute_jump_dests_from(_, _, _)
compute_jump_dests_from(program_, jd, pc) ==
    IF pc >= Len(program_) \/ jd.panicked THEN jd
    ELSE compute_jump_dests_from(program_, compute_jump_dests_step(program_, jd, pc), pc + 1)

compute_jump_dests(program_) ==
    compute_jump_dests_from(program_, [jump_dests |-> EmptyMap, panicked |-> FALSE], 0)

(***************************************************************************)
(* interp.rs: State.  A Cell is Val(x), written x, or Unknown.  The tape   *)
(* is the VecDeque front to back; head_pos and outputted_head_pos index    *)
(* it from 0.  A panic is recorded in panicked and stops the run.          *)
(***************************************************************************)
Unknown == -1

None == [live |-> FALSE]

new(program_) ==
    LET jd == compute_jump_dests(program_)
    IN [tape |-> <<0>>,
        head_pos |-> 0,
        outputted_head_pos |-> 0,
        tape_offset |-> 0,
        program_counter |-> 0,
        program |-> program_,
        execution_counter |-> [i \in 1..Len(program_) |-> 0],
        loop_enter_state |-> None,
        loop_level |-> 0,
        jump_dests |-> jd.jump_dests,
        panicked |-> jd.panicked]

NoState == [panicked |-> FALSE]

\* The reader: the results delivered so far, whether the input has ended, and
\* how many of the results the compiled program has taken.  The writer: out.
NoIO == [in |-> <<>>, eof |-> FALSE, taken |-> 0, out |-> <<>>]

\* getchar returns EOF (-1) at the end of input, and %al holds its low byte.
getchar_al(read_res) == IF read_res.eof THEN 255 ELSE read_res.byte

cell_at_head(st) == At(st.tape, st.head_pos)

move_right(st) ==
    [st EXCEPT !.head_pos = @ + 1,
               !.tape = IF st.head_pos + 1 >= Len(@) THEN Append(@, 0) ELSE @,
               !.program_counter = @ + 1]

move_left_keeps_offset(st) ==
    IF st.head_pos = 0
      THEN [st EXCEPT !.tape = <<0>> \o @, !.program_counter = @ + 1]
      ELSE [st EXCEPT !.head_pos = @ - 1, !.program_counter = @ + 1]

\* A move_left without line 80's tape_offset += 1.
move_left_keeps_tape_offset(st) ==
    IF st.head_pos = 0
      THEN [st EXCEPT !.tape = <<0>> \o @, !.program_counter = @ + 1]
      ELSE [st EXCEPT !.head_pos = @ - 1, !.program_counter = @ + 1]

move_left_prepends_two(st) ==
    IF st.head_pos = 0
      THEN [st EXCEPT !.tape = <<0, 0>> \o @, !.tape_offset = @ + 1, !.program_counter = @ + 1]
      ELSE [st EXCEPT !.head_pos = @ - 1, !.program_counter = @ + 1]

move_left(st) ==
    IF st.head_pos = 0
      THEN [st EXCEPT !.tape = <<0>> \o @, !.tape_offset = @ + 1, !.program_counter = @ + 1]
      ELSE [st EXCEPT !.head_pos = @ - 1, !.program_counter = @ + 1]

increment_checked(st) ==
    IF cell_at_head(st) \in {Unknown, 255} THEN [st EXCEPT !.panicked = TRUE]
    ELSE [st EXCEPT !.tape = Put(@, st.head_pos, cell_at_head(st) + 1),
                    !.program_counter = @ + 1]

increment(st) ==
    IF cell_at_head(st) = Unknown THEN [st EXCEPT !.panicked = TRUE]
    ELSE [st EXCEPT !.tape = Put(@, st.head_pos, (cell_at_head(st) + 1) % 256),
                    !.program_counter = @ + 1]

decrement(st) ==
    IF cell_at_head(st) = Unknown THEN [st EXCEPT !.panicked = TRUE]
    ELSE [st EXCEPT !.tape = Put(@, st.head_pos, (cell_at_head(st) + 255) % 256),
                    !.program_counter = @ + 1]

\* write: the state after; the byte handed to the writer is the cell at the head.
write(st) ==
    IF cell_at_head(st) = Unknown THEN [st EXCEPT !.panicked = TRUE]
    ELSE [st EXCEPT !.program_counter = @ + 1]

\* read: read_res is what read_exact returned, a byte or UnexpectedEof.
read(st, read_res) ==
    LET buf == IF read_res.eof THEN 255 ELSE read_res.byte
    IN [st EXCEPT !.tape = Put(@, st.head_pos, buf), !.program_counter = @ + 1]

\* A jump that lands behind the matching JumpUnlessZero instead of on it.
jump_if_zero_past_the_bracket(st) ==
    IF cell_at_head(st) = Unknown THEN [st EXCEPT !.panicked = TRUE]
    ELSE IF cell_at_head(st) = 0
      THEN [st EXCEPT !.program_counter = st.jump_dests[@] + 1]
      ELSE [st EXCEPT !.program_counter = @ + 1]

jump_if_zero(st) ==
    IF cell_at_head(st) = Unknown THEN [st EXCEPT !.panicked = TRUE]
    ELSE IF cell_at_head(st) = 0
      THEN [st EXCEPT !.program_counter = st.jump_dests[@]]
      ELSE [st EXCEPT !.program_counter = @ + 1]

jump_unless_zero(st) ==
    IF cell_at_head(st) = Unknown THEN [st EXCEPT !.panicked = TRUE]
    ELSE IF cell_at_head(st) # 0
      THEN [st EXCEPT !.program_counter = st.jump_dests[@]]
      ELSE [st EXCEPT !.program_counter = @ + 1]

count_dispatch_at_zero(st) ==
    [st EXCEPT !.execution_counter[1] = @ + 1]

\* self.execution_counter[self.program_counter] += 1 (line 166).
count_dispatch(st) ==
    [st EXCEPT !.execution_counter[st.program_counter + 1] = @ + 1]

\* One iteration of interp's loop (lines 166-178).
interp_step(st, read_res) ==
    LET inst == At(st.program, st.program_counter)
        counted == count_dispatch(st)
    IN CASE inst = MoveRight -> move_right(counted)
         [] inst = MoveLeft -> move_left(counted)
         [] inst = Increment -> increment(counted)
         [] inst = Decrement -> decrement(counted)
         [] inst = Write -> write(counted)
         [] inst = Read -> read(counted, read_res)
         [] inst = JumpIfZero -> jump_if_zero(counted)
         [] inst = JumpUnlessZero -> jump_unless_zero(counted)
         [] OTHER -> [counted EXCEPT !.panicked = TRUE]

(***************************************************************************)
(* interp.rs: partial_eval.  r is the running evaluation: the State, the   *)
(* local buffer insts and whether the loop was left by a break.            *)
(***************************************************************************)
sync_compiled_head_pos(r) ==
    IF r.st.head_pos # r.st.outputted_head_pos
      THEN [r EXCEPT !.insts = Append(@, SetHeadPos(r.st.head_pos - r.st.tape_offset)),
                     !.st.outputted_head_pos = r.st.head_pos]
      ELSE r

LoopEnterState(r) ==
    [live |-> TRUE,
     tape |-> r.st.tape,
     head_pos |-> r.st.head_pos,
     outputted_head_pos |-> r.st.outputted_head_pos,
     tape_offset |-> r.st.tape_offset,
     program_counter |-> r.st.program_counter,
     emitted_insts |-> r.insts]

partial_eval_jump_if_zero_always_snapshots(r) ==
    IF cell_at_head(r.st) = Unknown THEN [r EXCEPT !.broke = TRUE]
    ELSE [r EXCEPT !.st = jump_if_zero([r.st EXCEPT !.loop_enter_state = LoopEnterState(r),
                                                    !.loop_level = @ + 1])]

\* Lines 246-269.
partial_eval_jump_if_zero(r) ==
    IF cell_at_head(r.st) = Unknown THEN [r EXCEPT !.broke = TRUE]
    ELSE LET entered == IF r.st.loop_enter_state.live THEN r.st.loop_enter_state
                        ELSE LoopEnterState(r)
         IN [r EXCEPT !.st = jump_if_zero([r.st EXCEPT !.loop_enter_state = entered,
                                                       !.loop_level = @ + 1])]

\* A JumpUnlessZero arm without line 276's loop_level -= 1.
partial_eval_jump_unless_zero_keeps_loop_level(r) ==
    IF cell_at_head(r.st) = Unknown THEN [r EXCEPT !.broke = TRUE]
    ELSE [r EXCEPT !.st = jump_unless_zero(r.st)]

\* Lines 270-284.
partial_eval_jump_unless_zero(r) ==
    IF cell_at_head(r.st) = Unknown THEN [r EXCEPT !.broke = TRUE]
    ELSE LET jumped == jump_unless_zero(r.st)
         IN [r EXCEPT !.st = [jumped EXCEPT !.loop_level = @ - 1,
                                            !.loop_enter_state =
                                                IF jumped.loop_level - 1 = 0 THEN None ELSE @]]

partial_eval_write_emits_write(r) ==
    [sync_compiled_head_pos(r) EXCEPT !.insts = Append(@, Write), !.st.program_counter = @ + 1]

\* Lines 227-236.
partial_eval_write(r) ==
    IF cell_at_head(r.st) = Unknown
      THEN [sync_compiled_head_pos(r) EXCEPT !.insts = Append(@, Write),
                                             !.st.program_counter = @ + 1]
      ELSE [r EXCEPT !.insts = Append(@, Output(cell_at_head(r.st))),
                     !.st.program_counter = @ + 1]

partial_eval_read_keeps_value(r) ==
    [sync_compiled_head_pos(r) EXCEPT !.insts = Append(@, Read), !.st.program_counter = @ + 1]

\* Lines 238-244.
partial_eval_read(r) ==
    [sync_compiled_head_pos(r) EXCEPT !.st.tape = Put(@, r.st.head_pos, Unknown),
                                      !.insts = Append(@, Read),
                                      !.st.program_counter = @ + 1]

\* A Decrement of a known cell is emitted instead of executed.
partial_eval_step_defers_decrement(r) ==
    LET inst == At(r.st.program, r.st.program_counter)
        known == cell_at_head(r.st) # Unknown
        synced == sync_compiled_head_pos(r)
    IN CASE inst = MoveRight -> [r EXCEPT !.st = move_right(@)]
         [] inst = MoveLeft -> [r EXCEPT !.st = move_left(@)]
         [] inst = Increment ->
              IF known THEN [r EXCEPT !.st = increment(@)]
              ELSE [synced EXCEPT !.insts = Append(@, Increment), !.st.program_counter = @ + 1]
         [] inst = Decrement ->
              [synced EXCEPT !.insts = Append(@, Decrement), !.st.program_counter = @ + 1]
         [] inst = Write -> partial_eval_write(r)
         [] inst = Read -> partial_eval_read(r)
         [] inst = JumpIfZero -> partial_eval_jump_if_zero(r)
         [] inst = JumpUnlessZero -> partial_eval_jump_unless_zero(r)
         [] OTHER -> [r EXCEPT !.st.panicked = TRUE]

\* One iteration of partial_eval's loop (lines 201-286).
partial_eval_step(r) ==
    LET inst == At(r.st.program, r.st.program_counter)
        known == cell_at_head(r.st) # Unknown
        synced == sync_compiled_head_pos(r)
    IN CASE inst = MoveRight -> [r EXCEPT !.st = move_right(@)]
         [] inst = MoveLeft -> [r EXCEPT !.st = move_left(@)]
         [] inst = Increment ->
              IF known THEN [r EXCEPT !.st = increment(@)]
              ELSE [synced EXCEPT !.insts = Append(@, Increment), !.st.program_counter = @ + 1]
         [] inst = Decrement ->
              IF known THEN [r EXCEPT !.st = decrement(@)]
              ELSE [synced EXCEPT !.insts = Append(@, Decrement), !.st.program_counter = @ + 1]
         [] inst = Write -> partial_eval_write(r)
         [] inst = Read -> partial_eval_read(r)
         [] inst = JumpIfZero -> partial_eval_jump_if_zero(r)
         [] inst = JumpUnlessZero -> partial_eval_jump_unless_zero(r)
         [] OTHER -> [r EXCEPT !.st.panicked = TRUE]

\* A restore that leaves program_counter where the loop was left.
partial_eval_restore_keeps_program_counter(r) ==
    LET s == r.st.loop_enter_state
    IN IF ~s.live THEN r
       ELSE [r EXCEPT !.st.tape = s.tape,
                      !.st.head_pos = s.head_pos,
                      !.st.outputted_head_pos = s.outputted_head_pos,
                      !.st.tape_offset = s.tape_offset,
                      !.insts = s.emitted_insts]

\* Lines 289-301: back to the snapshot when one is live.
partial_eval_restore(r) ==
    LET s == r.st.loop_enter_state
    IN IF ~s.live THEN r
       ELSE [r EXCEPT !.st.tape = s.tape,
                      !.st.head_pos = s.head_pos,
                      !.st.outputted_head_pos = s.outputted_head_pos,
                      !.st.tape_offset = s.tape_offset,
                      !.st.program_counter = s.program_counter,
                      !.insts = s.emitted_insts]

set_cells_from_index_zero(tape, tape_offset, idx) ==
    [k \in 1..Len(SelectSeq(tape, LAMBDA c : c # Unknown)) |->
        SetCell(k - 1, SelectSeq(tape, LAMBDA c : c # Unknown)[k])]

\* Lines 307-318: a SetCell for every known cell, front to back.
RECURSIVE set_cells(_, _, _)
set_cells(tape, tape_offset, idx) ==
    IF idx >= Len(tape) THEN <<>>
    ELSE (IF At(tape, idx) = Unknown THEN <<>>
          ELSE <<SetCell(idx - tape_offset, At(tape, idx))>>)
            \o set_cells(tape, tape_offset, idx + 1)

partial_eval_preamble_cells_first(r) ==
    IF r.st.program_counter < Len(r.st.program)
      THEN sync_compiled_head_pos(
               [r EXCEPT !.insts = @ \o set_cells(r.st.tape, r.st.tape_offset, 0)])
      ELSE r

\* Lines 303-319.
partial_eval_preamble(r) ==
    IF r.st.program_counter < Len(r.st.program)
      THEN LET synced == sync_compiled_head_pos(r)
           IN [synced EXCEPT !.insts = @ \o set_cells(r.st.tape, r.st.tape_offset, 0)]
      ELSE r

\* Lines 323-325.
partial_eval_tail(r) ==
    [r EXCEPT !.insts = @ \o SubSeq(r.st.program, r.st.program_counter + 1, Len(r.st.program))]

(***************************************************************************)
(* interp.rs: get_loop_executions.  A LoopExecution is a record; curr_loop *)
(* is None or Some(l).  g is the state of the scan over the program: the   *)
(* two vectors and the five locals.                                        *)
(***************************************************************************)
LoopExecution(pc_, n, insts_) == [pc |-> pc_, num_times_executed |-> n, insts |-> insts_]

Some(l_) == [live |-> TRUE, l |-> l_]

classify_ignores_io(has_io, pointer_offset, pointer_value) ==
    pointer_offset = 0 /\ Abs(pointer_value) = 1

\* The test of lines 380, 385: TRUE for simple_loops, FALSE for complex_loops.
classify(has_io, pointer_offset, pointer_value) ==
    ~has_io /\ pointer_offset = 0 /\ Abs(pointer_value) = 1

\* A JumpUnlessZero arm without line 373's curr_loop = Option::None.
get_loop_executions_step_keeps_curr_loop(st, g, pc) ==
    LET inst == At(st.program, pc)
        pushed == IF g.curr_loop.live
                    THEN [g EXCEPT !.curr_loop.l.insts = Append(@, inst)]
                    ELSE g
        tracked ==
            CASE inst = MoveRight -> [pushed EXCEPT !.pointer_offset = @ + 1]
              [] inst = MoveLeft -> [pushed EXCEPT !.pointer_offset = @ - 1]
              [] inst \in {Write, Read} -> [pushed EXCEPT !.has_io = TRUE]
              [] inst = Increment ->
                   IF pushed.pointer_offset = 0
                     THEN [pushed EXCEPT !.pointer_value = @ + 1] ELSE pushed
              [] inst = Decrement ->
                   IF pushed.pointer_offset = 0
                     THEN [pushed EXCEPT !.pointer_value = @ - 1] ELSE pushed
              [] OTHER -> pushed
    IN CASE inst = JumpIfZero ->
              [tracked EXCEPT !.curr_loop = Some(LoopExecution(pc, 0, <<JumpIfZero>>)),
                              !.has_io = FALSE,
                              !.pointer_offset = 0,
                              !.pointer_value = 0]
         [] inst = JumpUnlessZero ->
              IF ~tracked.curr_loop.live THEN tracked
              ELSE IF classify(tracked.has_io, tracked.pointer_offset, tracked.pointer_value)
                THEN [tracked EXCEPT !.simple_loops = Append(@, tracked.curr_loop.l)]
                ELSE [tracked EXCEPT !.complex_loops = Append(@, tracked.curr_loop.l)]
         [] OTHER ->
              IF tracked.curr_loop.live /\ tracked.curr_loop.l.num_times_executed = 0
                THEN [tracked EXCEPT !.curr_loop.l.num_times_executed =
                                          At(st.execution_counter, pc)]
                ELSE tracked

\* One iteration of for pc in 0..self.program.len() (lines 340-402).
get_loop_executions_step(st, g, pc) ==
    LET inst == At(st.program, pc)
        pushed == IF g.curr_loop.live
                    THEN [g EXCEPT !.curr_loop.l.insts = Append(@, inst)]
                    ELSE g
        tracked ==
            CASE inst = MoveRight -> [pushed EXCEPT !.pointer_offset = @ + 1]
              [] inst = MoveLeft -> [pushed EXCEPT !.pointer_offset = @ - 1]
              [] inst \in {Write, Read} -> [pushed EXCEPT !.has_io = TRUE]
              [] inst = Increment ->
                   IF pushed.pointer_offset = 0
                     THEN [pushed EXCEPT !.pointer_value = @ + 1] ELSE pushed
              [] inst = Decrement ->
                   IF pushed.pointer_offset = 0
                     THEN [pushed EXCEPT !.pointer_value = @ - 1] ELSE pushed
              [] OTHER -> pushed
    IN CASE inst = JumpIfZero ->
              [tracked EXCEPT !.curr_loop = Some(LoopExecution(pc, 0, <<JumpIfZero>>)),
                              !.has_io = FALSE,
                              !.pointer_offset = 0,
                              !.pointer_value = 0]
         [] inst = JumpUnlessZero ->
              IF ~tracked.curr_loop.live THEN tracked
              ELSE IF classify(tracked.has_io, tracked.pointer_offset, tracked.pointer_value)
                THEN [tracked EXCEPT !.curr_loop = None,
                                     !.simple_loops = Append(@, tracked.curr_loop.l)]
                ELSE [tracked EXCEPT !.curr_loop = None,
                                     !.complex_loops = Append(@, tracked.curr_loop.l)]
         [] OTHER ->
              IF tracked.curr_loop.live /\ tracked.curr_loop.l.num_times_executed = 0
                THEN [tracked EXCEPT !.curr_loop.l.num_times_executed =
                                          At(st.execution_counter, pc)]
                ELSE tracked

\* The test on g.pointer_offset has g evaluated before the next iteration.
RECURSIVE get_loop_executions_from(_, _, _)
get_loop_executions_from(st, g, pc) ==
    IF pc >= Len(st.program) \/ g.pointer_offset \notin Int THEN g
    ELSE get_loop_executions_from(st, get_loop_executions_step(st, g, pc), pc + 1)

\* A sort that is not stable: a record goes behind the later records equal to it.
RECURSIVE sort_ties_reversed(_)
sort_ties_reversed(v) ==
    IF Len(v) <= 1 THEN v
    ELSE LET rest == sort_ties_reversed(Tail(v))
             l == Head(v)
             before == {k \in 1..Len(rest) : rest[k].num_times_executed >= l.num_times_executed}
             n == Cardinality(before)
         IN SubSeq(rest, 1, n) \o <<l>> \o SubSeq(rest, n + 1, Len(rest))

\* Vec::sort with Ord for LoopExecution (lines 505-509): stable, and l comes
\* before m when l.num_times_executed > m.num_times_executed.
RECURSIVE sort(_)
sort(v) ==
    IF Len(v) <= 1 THEN v
    ELSE LET rest == sort(Tail(v))
             l == Head(v)
             before == {k \in 1..Len(rest) : rest[k].num_times_executed > l.num_times_executed}
             n == Cardinality(before)
         IN SubSeq(rest, 1, n) \o <<l>> \o SubSeq(rest, n + 1, Len(rest))

get_loop_executions(st) ==
    LET g == get_loop_executions_from(st,
                 [simple_loops |-> <<>>, complex_loops |-> <<>>, curr_loop |-> None,
                  has_io |-> FALSE, pointer_offset |-> 0, pointer_value |-> 0], 0)
    IN [simple_loops |-> sort(g.simple_loops), complex_loops |-> sort(g.complex_loops)]

(***************************************************************************)
(* main.rs: the interpreter of the brainbug binary.  Its State holds a     *)
(* tape of bytes, and its lex and jump table are line for line those of    *)
(* common.rs and interp.rs.                                                *)
(***************************************************************************)
main_new(src) ==
    LET program_ == lex(src)
        jd == compute_jump_dests(program_)
    IN [tape |-> <<0>>,
        head_pos |-> 0,
        program_counter |-> 0,
        program |-> program_,
        jump_dests |-> jd.jump_dests,
        panicked |-> jd.panicked]

main_move_right(st) ==
    [st EXCEPT !.head_pos = @ + 1,
               !.tape = IF st.head_pos + 1 >= Len(@) THEN Append(@, 0) ELSE @,
               !.program_counter = @ + 1]

main_move_left(st) ==
    IF st.head_pos = 0
      THEN [st EXCEPT !.tape = <<0>> \o @, !.program_counter = @ + 1]
      ELSE [st EXCEPT !.head_pos = @ - 1, !.program_counter = @ + 1]

main_increment(st) ==
    [st EXCEPT !.tape = Put(@, st.head_pos, (At(@, st.head_pos) + 1) % 256),
               !.program_counter = @ + 1]

main_decrement(st) ==
    [st EXCEPT !.tape = Put(@, st.head_pos, (At(@, st.head_pos) + 255) % 256),
               !.program_counter = @ + 1]

\* print!("{}", char::from_u32(cell)): the bytes of the character in UTF-8.
main_write_bytes(cell) ==
    IF cell < 128 THEN <<cell>> ELSE <<192 + (cell \div 64), 128 + (cell % 64)>>

main_write(st) == [st EXCEPT !.program_counter = @ + 1]

\* read: the result of read_exact is dropped, so buf keeps its 0 at the end
\* of the input.
main_read(st, read_res) ==
    LET buf == IF read_res.eof THEN 0 ELSE read_res.byte
    IN [st EXCEPT !.tape = Put(@, st.head_pos, buf), !.program_counter = @ + 1]

main_jump_if_zero(st) ==
    IF At(st.tape, st.head_pos) = 0
      THEN [st EXCEPT !.program_counter = st.jump_dests[@]]
      ELSE [st EXCEPT !.program_counter = @ + 1]

main_jump_unless_zero(st) ==
    IF At(st.tape, st.head_pos) # 0
      THEN [st EXCEPT !.program_counter = st.jump_dests[@]]
      ELSE [st EXCEPT !.program_counter = @ + 1]

\* One iteration of interp's loop.
main_interp_step(st, read_res) ==
    LET inst == At(st.program, st.program_counter)
    IN CASE inst = MoveRight -> main_move_right(st)
         [] inst = MoveLeft -> main_move_left(st)
         [] inst = Increment -> main_increment(st)
         [] inst = Decrement -> main_decrement(st)
         [] inst = Write -> main_write(st)
         [] inst = Read -> main_read(st, read_res)
         [] inst = JumpIfZero -> main_jump_if_zero(st)
         [] inst = JumpUnlessZero -> main_jump_unless_zero(st)

(***************************************************************************)
(* The lexer as a machine: one action per character of the source.         *)
(***************************************************************************)
OpcodeChars == {">", "<", "+", "-", ".", ",", "[", "]"}
SourceChars == OpcodeChars \cup {"a", " "}

LexInit ==
    /\ phase = [at |-> "lex", i |-> 1]
    /\ source \in SeqsUpTo(SourceChars, MaxSrcLen)
    /\ program = <<>>
    /\ input = <<>>
    /\ machine = NoMachine
    /\ reference = NoMachine
    /\ state = NoState /\ emitted_insts = <<>> /\ io = NoIO

LexChar ==
    /\ phase.at = "lex"
    /\ phase.i <= Len(source)
    /\ program' = lex_char(program, source[phase.i])
    /\ phase' = [phase EXCEPT !.i = @ + 1]
    /\ UNCHANGED <<source, input, machine, reference>>
    /\ UNCHANGED <<state, emitted_insts, io>>

LexReturn ==
    /\ phase.at = "lex"
    /\ phase.i > Len(source)
    /\ phase' = [at |-> "lexed", i |-> phase.i]
    /\ UNCHANGED <<source, program, input, machine, reference>>
    /\ UNCHANGED <<state, emitted_insts, io>>

LexNext == LexChar \/ LexReturn

SpecLex == LexInit /\ [][LexNext]_vars

(***************************************************************************)
(* C8: lex maps the eight source characters to their opcodes in source     *)
(* order and discards every other character: the tokens of a source are    *)
(* the tokens of the source with its non-opcode characters removed, one    *)
(* token per opcode character.                                             *)
(***************************************************************************)
OpcodeOfChar(c) ==
    CASE c = ">" -> "MoveRight" [] c = "<" -> "MoveLeft"
      [] c = "+" -> "Increment" [] c = "-" -> "Decrement"
      [] c = "." -> "Write" [] c = "," -> "Read"
      [] c = "[" -> "JumpIfZero" [] c = "]" -> "JumpUnlessZero"

StripNonOpcodes(src) == SelectSeq(src, LAMBDA c : c \in OpcodeChars)

C8_LexDiscardsNonOpcodes ==
    phase.at = "lexed" =>
        LET stripped == StripNonOpcodes(source) IN
        /\ program = lex(stripped)
        /\ Len(program) = Cardinality({i \in 1..Len(source) : source[i] \in OpcodeChars})
        /\ Len(program) = Len(stripped)
        /\ \A i \in 1..Len(stripped) :
              program[i] = Ins(OpcodeOfChar(stripped[i]), 0, 0)

C8_Witness ==
    /\ phase.at = "lexed"
    /\ Len(program) = 2
    /\ Len(source) = 3
    /\ source[2] \notin OpcodeChars

(***************************************************************************)
(* The rewriters as a machine: compile_to_asm applies simplify_loops and   *)
(* then vectorize_scans (lines 338-344), each behind its own flag; the     *)
(* tests apply each alone.  phase.passes is the passes applied so far.     *)
(***************************************************************************)
ArithOps == {MoveRight, MoveLeft, Increment, Decrement}

FlatLoops ==
    {<<JumpIfZero>> \o body \o <<JumpUnlessZero>> : body \in SeqsUpTo(ArithOps, MaxBodyLen)}

\* The loops of test_increment_loop_add_1_write and _read.
RewriteExamples ==
    {lex(<<"[", "-", ">", "+", ">", ".", "<", "<", "]">>),
     lex(<<"[", "-", ">", "+", ">", ",", "<", "<", "]">>)}

\* A loop around one opcode at most, a flat loop and one opcode at most; and
\* the program of test_decrement_loop_nested_add_1.
NestedLoops ==
    {<<JumpIfZero>> \o pre \o <<JumpIfZero>> \o body \o <<JumpUnlessZero>> \o post
         \o <<JumpUnlessZero>> :
        pre \in SeqsUpTo(ArithOps, 1), post \in SeqsUpTo(ArithOps, 1),
        body \in SeqsUpTo(ArithOps, MaxNestedBody)}
      \cup {lex(<<"+", "+", "[", "-", ">", "+", "+", "+", "[", "-", ">", "+", "<", "]",
                 "<", "]">>)}

\* The loop of test_decrement_loop_add_sub.
AddSubExample ==
    {lex(<<"[", "-", ">", ">", "+", "+", "+", ">", ">", ">", ">", ">", "-", "+", "-", "-",
           "-", "<", "+", "+", "<", "<", "<", "<", "<", "<", "]">>)}

RewritePrograms ==
    SeqsUpTo(Primitives \cup {Zero}, MaxProgLen) \cup FlatLoops \cup RewriteExamples
      \cup NestedLoops \cup AddSubExample

RewriteInit ==
    /\ phase = [at |-> "rewrite", passes |-> <<>>]
    /\ source = <<>>
    /\ program \in RewritePrograms
    /\ input = program
    /\ machine = NoMachine
    /\ reference = NoMachine
    /\ state = NoState /\ emitted_insts = <<>> /\ io = NoIO

SimplifyLoops ==
    /\ phase.at = "rewrite"
    /\ Len(phase.passes) < MaxPasses
    /\ program' = simplify_loops(program)
    /\ phase' = [phase EXCEPT !.passes = Append(@, "simplify_loops")]
    /\ UNCHANGED <<source, input, machine, reference>>
    /\ UNCHANGED <<state, emitted_insts, io>>

VectorizeScans ==
    /\ phase.at = "rewrite"
    /\ Len(phase.passes) < MaxPasses
    /\ program' = vectorize_scans(program)
    /\ phase' = [phase EXCEPT !.passes = Append(@, "vectorize_scans")]
    /\ UNCHANGED <<source, input, machine, reference>>
    /\ UNCHANGED <<state, emitted_insts, io>>

RewriteNext == SimplifyLoops \/ VectorizeScans

SpecRewrite == RewriteInit /\ [][RewriteNext]_vars

(***************************************************************************)
(* C5: simplify_loops and vectorize_scans leave the length of the program  *)
(* vector unchanged, for every program, balanced or not, in any order and  *)
(* number of applications.                                                 *)
(***************************************************************************)
C5_RewritePreservesLength ==
    phase.at = "rewrite" => Len(program) = Len(input)

C5_Witness ==
    /\ phase.at = "rewrite"
    /\ phase.passes = <<"simplify_loops", "vectorize_scans">>
    /\ Zero \notin {input[i] : i \in 1..Len(input)}
    /\ \E i \in 1..Len(program) : program[i].op \in {"Scan", "Zero"}

(***************************************************************************)
(* A loop run as compiled code, first as written and then as rewritten by  *)
(* one of the passes, from the same tape and head.                         *)
(***************************************************************************)
ExecLoops ==
    {<<JumpIfZero>> \o body \o <<JumpUnlessZero>> : body \in SeqsUpTo(ArithOps, MaxLoopBody)}

\* The machine at loop entry.  For simplify_loops: a counter under the head
\* in a uniformly filled tape.  For vectorize_scans: a tape of nonzero cells
\* with at most two cells holding 0, the head at either end of the window
\* or next to the origin, so that a scan can run through more than the
\* eight cells one pass of the kernel gathers.
CounterEntries ==
    {asm_entry([a \in Addr |-> IF a = 0 THEN c ELSE v], 0) : c \in {0, 2, 255}, v \in {0, 255}}
        \cup {asm_entry([a \in Addr |-> IF a = 1 THEN c ELSE 3], 1) : c \in {1, 255}}

SparseEntries ==
    {asm_entry([a \in Addr |-> IF a \in {z1, z2} THEN 0 ELSE 1], head) :
        z1 \in Addr \cup {MemRadius + 2}, z2 \in Addr \cup {MemRadius + 2},
        head \in {0 - MemRadius, 0, 1, MemRadius + 1}}

LoopInit ==
    /\ source = <<>>
    /\ input \in ExecLoops
    /\ program = input
    /\ \/ phase = [at |-> "loop", run |-> "entry", pass |-> "simplify_loops"]
          /\ machine \in CounterEntries
       \/ phase = [at |-> "loop", run |-> "entry", pass |-> "vectorize_scans"]
          /\ machine \in SparseEntries
    /\ reference = [entry |-> machine, after |-> machine]
    /\ state = NoState /\ emitted_insts = <<>> /\ io = NoIO

LoopSimplify ==
    /\ phase.at = "loop" /\ phase.run = "entry" /\ phase.pass = "simplify_loops"
    /\ program' = simplify_loops(program)
    /\ program' # program
    /\ phase' = [phase EXCEPT !.run = "original"]
    /\ UNCHANGED <<source, input, machine, reference>>
    /\ UNCHANGED <<state, emitted_insts, io>>

LoopVectorize ==
    /\ phase.at = "loop" /\ phase.run = "entry" /\ phase.pass = "vectorize_scans"
    /\ program' = vectorize_scans(program)
    /\ program' # program
    /\ phase' = [phase EXCEPT !.run = "original"]
    /\ UNCHANGED <<source, input, machine, reference>>
    /\ UNCHANGED <<state, emitted_insts, io>>

ExecOriginal ==
    /\ phase.at = "loop" /\ phase.run = "original"
    /\ asm_in_window(machine, input, 0)
    /\ machine' = asm_step(machine, input, 0)
    /\ UNCHANGED <<phase, source, program, input, reference>>
    /\ UNCHANGED <<state, emitted_insts, io>>

ExecSwitch ==
    /\ phase.at = "loop" /\ phase.run = "original"
    /\ machine.pc >= Len(input)
    /\ reference' = [reference EXCEPT !.after = machine]
    /\ machine' = reference.entry
    /\ phase' = [phase EXCEPT !.run = "rewritten"]
    /\ UNCHANGED <<source, program, input>>
    /\ UNCHANGED <<state, emitted_insts, io>>

ExecRewritten ==
    /\ phase.at = "loop" /\ phase.run = "rewritten"
    /\ asm_in_window(machine, program, 0)
    /\ machine' = asm_step(machine, program, 0)
    /\ UNCHANGED <<phase, source, program, input, reference>>
    /\ UNCHANGED <<state, emitted_insts, io>>

ExecReturn ==
    /\ phase.at = "loop" /\ phase.run = "rewritten"
    /\ machine.pc >= Len(program)
    /\ phase' = [phase EXCEPT !.run = "done"]
    /\ UNCHANGED <<source, program, input, machine, reference>>
    /\ UNCHANGED <<state, emitted_insts, io>>

LoopNext ==
    \/ LoopSimplify \/ LoopVectorize
    \/ ExecOriginal \/ ExecSwitch \/ ExecRewritten \/ ExecReturn

SpecLoop == LoopInit /\ [][LoopNext]_vars

\* The rewritten code is running or has run, after the loop as written ran
\* to completion from the same entry.
Rewritten(pass) ==
    phase.at = "loop" /\ phase.pass = pass /\ phase.run \in {"rewritten", "done"}

SameOutcome ==
    /\ machine.mem = reference.after.mem
    /\ machine.r12 = reference.after.r12
    /\ machine.out = reference.after.out

(***************************************************************************)
(* C2: for every loop simplify_loops rewrites and every tape and head at   *)
(* loop entry, the replacement sequence runs to its end and leaves the     *)
(* same tape, head and output as the original loop run to completion.      *)
(***************************************************************************)
C2_SimplifiedLoopEquivalent ==
    Rewritten("simplify_loops") =>
        /\ machine.pc < Len(program) => asm_in_window(machine, program, 0)
        /\ phase.run = "done" => SameOutcome

C2_Witness ==
    /\ Rewritten("simplify_loops") /\ phase.run = "done"
    /\ reference.entry.mem[reference.entry.r12] = 255
    /\ \E i \in 1..Len(program) : program[i].op = "Sub"
    /\ machine.mem # reference.entry.mem
    /\ \E a \in Addr : a # machine.r12 /\ machine.mem[a] # reference.entry.mem[a]

(***************************************************************************)
(* C3: for every loop vectorize_scans rewrites to Scan(s) and every tape   *)
(* and head on which the original loop halts, Scan(s) leaves the head      *)
(* where the original loop leaves it, on the first cell holding 0 among    *)
(* head, head + s, head + 2s, ..., and leaves the tape unchanged.          *)
(***************************************************************************)
C3_ScanEquivalent ==
    Rewritten("vectorize_scans") =>
        /\ machine.pc < Len(program) => asm_in_window(machine, program, 0)
        /\ phase.run = "done" =>
              /\ SameOutcome
              /\ machine.mem = reference.entry.mem
              /\ LET s == program[1].a
                     k == (machine.r12 - reference.entry.r12) \div s
                 IN /\ program[1].op = "Scan"
                    /\ k >= 0
                    /\ machine.r12 = reference.entry.r12 + k * s
                    /\ machine.mem[machine.r12] = 0
                    /\ \A n \in 0..(k - 1) : machine.mem[reference.entry.r12 + n * s] # 0

C3_Witness ==
    /\ Rewritten("vectorize_scans") /\ phase.run = "done"
    /\ program[1].a = -1
    /\ reference.entry.r12 - machine.r12 > 8

(***************************************************************************)
(* What the claims about simplify_loops call a loop, its body and the      *)
(* body's net effects, read off the program before the pass (slots are     *)
(* counted from 1 here).                                                   *)
(***************************************************************************)
Count(p, lo, hi, x) == Cardinality({k \in lo..hi : p[k] = x})

BracketDepth(p, i, k) == Count(p, i, k, JumpIfZero) - Count(p, i, k, JumpUnlessZero)

\* Slots i and j hold a JumpIfZero and the JumpUnlessZero that closes it.
IsLoop(p, i, j) ==
    /\ i < j
    /\ p[i] = JumpIfZero
    /\ p[j] = JumpUnlessZero
    /\ BracketDepth(p, i, j) = 0
    /\ \A k \in i..(j - 1) : BracketDepth(p, i, k) > 0

\* Head displacement of the body's opcodes before slot k.
HeadBefore(p, i, k) == Count(p, i + 1, k - 1, MoveRight) - Count(p, i + 1, k - 1, MoveLeft)

\* Net change the body makes to the cell at offset d.
NetChange(p, i, j, d) ==
    Cardinality({k \in (i + 1)..(j - 1) : p[k] = Increment /\ HeadBefore(p, i, k) = d})
      - Cardinality({k \in (i + 1)..(j - 1) : p[k] = Decrement /\ HeadBefore(p, i, k) = d})

TouchedOffsets(p, i, j) ==
    {HeadBefore(p, i, k) : k \in {m \in (i + 1)..(j - 1) : p[m] \in {Increment, Decrement}}}

CountedLoop(p, i, j) ==
    /\ \A k \in (i + 1)..(j - 1) : p[k] \in ArithOps
    /\ HeadBefore(p, i, j) = 0
    /\ NetChange(p, i, j, 0) \in {1, -1}

AfterSimplifyOnly == phase.at = "rewrite" /\ phase.passes = <<"simplify_loops">>

(***************************************************************************)
(* C9: simplify_loops rewrites a loop if and only if its body holds only   *)
(* MoveLeft, MoveRight, Increment and Decrement, the body's net head       *)
(* displacement is 0 and its net change at offset 0 is +1 or -1.           *)
(***************************************************************************)
C9_SimplifyRewritesExactlyCountedLoops ==
    AfterSimplifyOnly =>
        \A i, j \in 1..Len(input) :
            IsLoop(input, i, j) =>
                (program[i] # JumpIfZero <=> CountedLoop(input, i, j))

C9_Witness ==
    /\ AfterSimplifyOnly
    /\ \E i, j \in 1..Len(input) :
          /\ IsLoop(input, i, j) /\ j > i + 3
          /\ program[i] # JumpIfZero
          /\ HeadBefore(input, i, i + 2) # 0

(***************************************************************************)
(* C10: a committed loop's slots hold, from start_pc: for each offset      *)
(* d # 0 in ascending order with net delta v, |v| copies of Add(d) (index  *)
(* decrements and v > 0, or index increments and v < 0) or else Sub(d);    *)
(* then one Zero; then Nop up to and including the JumpUnlessZero slot.    *)
(***************************************************************************)
ExpectedCopies(down, d, v) ==
    Repeat(IF (down /\ v > 0) \/ (~down /\ v < 0) THEN Add(d) ELSE Sub(d), Abs(v))

RECURSIVE ExpectedArith(_, _, _, _, _)
ExpectedArith(p, i, j, down, offsets) ==
    IF offsets = {} THEN <<>>
    ELSE LET d == Min(offsets) IN
         (IF d = 0 THEN <<>> ELSE ExpectedCopies(down, d, NetChange(p, i, j, d)))
            \o ExpectedArith(p, i, j, down, offsets \ {d})

ExpectedSlots(p, i, j) ==
    LET arith == ExpectedArith(p, i, j, NetChange(p, i, j, 0) = -1, TouchedOffsets(p, i, j))
    IN arith \o <<Zero>> \o Repeat(Nop, (j - i + 1) - Len(arith) - 1)

C10_CommittedSlots ==
    AfterSimplifyOnly =>
        /\ \A i, j \in 1..Len(input) :
              (IsLoop(input, i, j) /\ program[i] # JumpIfZero) =>
                  SubSeq(program, i, j) = ExpectedSlots(input, i, j)
        /\ input \in {lex(<<"[", "-", "]">>), lex(<<"[", "+", "]">>)} =>
              program = <<Zero, Nop, Nop>>
        /\ input \in {lex(<<"[", "-", ">", "+", "<", "]">>),
                      lex(<<"[", "+", ">", "-", "<", "]">>)} =>
              program = <<Add(1), Zero, Nop, Nop, Nop, Nop>>

C10_Witness ==
    /\ AfterSimplifyOnly
    /\ \E i, j \in 1..Len(input) :
          /\ IsLoop(input, i, j)
          /\ NetChange(input, i, j, 0) = 1
          /\ program[i] = Sub(1)
          /\ program[i + 1] = Sub(1)
          /\ program[i + 2] = Zero

(***************************************************************************)
(* C11: simplify_loops changes no opcode outside the slots of the loops    *)
(* it commits, so a program none of whose loops meets the commit           *)
(* conditions, such as a counted loop with a Write or a Read in its body,  *)
(* comes back identical.                                                   *)
(***************************************************************************)
InCommittedLoop(p, k) ==
    \E i \in 1..k, j \in k..Len(p) : IsLoop(p, i, j) /\ CountedLoop(p, i, j)

C11_SimplifyChangesOnlyCommittedLoops ==
    AfterSimplifyOnly =>
        /\ \A k \in 1..Len(input) : ~InCommittedLoop(input, k) => program[k] = input[k]
        /\ (\A k \in 1..Len(input) : ~InCommittedLoop(input, k)) => program = input
        /\ input \in RewriteExamples => program = input

C11_Witness ==
    /\ AfterSimplifyOnly
    /\ program = input
    /\ \E i, j \in 1..Len(input) :
          /\ IsLoop(input, i, j)
          /\ HeadBefore(input, i, j) = 0
          /\ NetChange(input, i, j, 0) = -1
          /\ NetChange(input, i, j, 1) = 1
          /\ \E k \in (i + 1)..(j - 1) : input[k] \in {Write, Read}

(***************************************************************************)
(* C12: vectorize_scans rewrites a loop if and only if its body holds only *)
(* MoveLeft and MoveRight and its net head displacement s is not 0; it     *)
(* puts Scan(s) in the JumpIfZero slot and Nop in the loop's other slots   *)
(* through the JumpUnlessZero, so every Scan it makes has a nonzero step,  *)
(* and every other opcode of the program is unchanged.                     *)
(***************************************************************************)
AfterVectorizeOnly == phase.at = "rewrite" /\ phase.passes = <<"vectorize_scans">>

ScanLoop(p, i, j) ==
    /\ \A k \in (i + 1)..(j - 1) : p[k] \in {MoveLeft, MoveRight}
    /\ HeadBefore(p, i, j) # 0

InScanLoop(p, k) == \E i \in 1..k, j \in k..Len(p) : IsLoop(p, i, j) /\ ScanLoop(p, i, j)

C12_VectorizeRewritesExactlyScanLoops ==
    AfterVectorizeOnly =>
        /\ \A i, j \in 1..Len(input) :
              IsLoop(input, i, j) =>
                 /\ program[i] # JumpIfZero <=> ScanLoop(input, i, j)
                 /\ ScanLoop(input, i, j) =>
                       /\ program[i] = Scan(HeadBefore(input, i, j))
                       /\ \A k \in (i + 1)..j : program[k] = Nop
        /\ \A k \in 1..Len(input) :
              /\ ~InScanLoop(input, k) => program[k] = input[k]
              /\ program[k].op = "Scan" => program[k].a # 0

C12_Witness ==
    /\ AfterVectorizeOnly
    /\ \E i, j \in 1..Len(input) :
          /\ IsLoop(input, i, j)
          /\ program[i].op = "Scan" /\ program[i].a < 0
          /\ program[j] = Nop
          /\ Len(input) > j

(***************************************************************************)
(* interp against partial_eval: a program is interpreted on an input, then *)
(* partially evaluated by a fresh State, and the residual program is run   *)
(* as compiled code on the same input from an all-zero tape.               *)
(***************************************************************************)
InputBytes == {0, 1}

Balanced(p) ==
    /\ BracketDepth(p, 1, Len(p)) = 0
    /\ \A k \in 1..Len(p) : BracketDepth(p, 1, k) >= 0

\* Programs of the repository's tests and a few more with loops and moves
\* to the left of the origin.
Corpus ==
    {<<Read, MoveLeft, Read, MoveRight, Write>>,
     <<Read, MoveRight, Read, MoveLeft, Write>>,
     <<MoveLeft, MoveLeft, Read, MoveRight, Write, MoveLeft, Write>>,
     <<Increment, Increment, JumpIfZero, MoveRight, JumpIfZero, Decrement,
       JumpUnlessZero, Read, MoveLeft, Decrement, JumpUnlessZero>>,
     <<Increment, Increment, JumpIfZero, MoveRight, Read, Write, MoveLeft, Decrement,
       JumpUnlessZero>>,
     <<Read, JumpIfZero, Decrement, MoveRight, Increment, MoveLeft, JumpUnlessZero,
       MoveRight, Write>>,
     <<Increment, MoveRight, Increment, Increment, Increment, JumpIfZero, Read,
       JumpUnlessZero, MoveLeft, Write>>,
     <<MoveRight, Increment, Increment, JumpIfZero, Decrement, MoveRight, Read,
       JumpIfZero, Decrement, MoveRight, Increment, MoveLeft, JumpUnlessZero,
       JumpUnlessZero, MoveRight, Write>>,
     <<MoveRight, MoveRight, Read, MoveLeft, MoveLeft, MoveLeft, Read, Write,
       MoveRight, MoveRight, MoveRight, Write>>,
     <<Increment, MoveRight, Increment, Increment, MoveLeft, MoveLeft, Increment,
       Increment, Increment, MoveRight, MoveRight, MoveRight, Read, JumpIfZero,
       Decrement, MoveRight, Increment, MoveLeft, JumpUnlessZero, MoveRight, Write>>,
     <<Increment, Increment, JumpIfZero, MoveRight, Increment, MoveLeft, Decrement,
       JumpUnlessZero, MoveRight, Write>>,
     <<Increment, JumpIfZero, JumpIfZero, Read, JumpUnlessZero, JumpUnlessZero>>}

EvalPrograms == {p \in SeqsUpTo(Primitives, MaxEvalLen) : Balanced(p)} \cup Corpus

\* What the reader delivers to the next read: a byte, or the end of the
\* input, which stays the end.
ReadResults(rd) ==
    IF rd.eof THEN {[eof |-> TRUE, byte |-> 0]}
    ELSE {[eof |-> FALSE, byte |-> b] : b \in InputBytes} \cup {[eof |-> TRUE, byte |-> 0]}

\* The state at which the outermost loop being evaluated was first entered,
\* None outside every loop: taken at a JumpIfZero met outside every loop,
\* dropped when the JumpUnlessZero of that loop falls through.
outermost_entry(ref, r) ==
    LET inst == At(r.st.program, r.st.program_counter)
        known == cell_at_head(r.st) # Unknown
    IN IF inst = JumpIfZero /\ known /\ ~ref.live THEN LoopEnterState(r)
       ELSE IF inst = JumpUnlessZero /\ known /\ cell_at_head(r.st) = 0 /\ r.st.loop_level = 1
         THEN None
       ELSE ref

EvalInit ==
    /\ source = <<>>
    /\ input \in EvalPrograms
    /\ program = input
    /\ phase = [at |-> "eval", run |-> "interp"]
    /\ machine = NoMachine
    /\ reference = None
    /\ state = new(program)
    /\ emitted_insts = <<>>
    /\ io = NoIO

InterpStep ==
    /\ phase.run = "interp"
    /\ ~state.panicked
    /\ state.program_counter < Len(state.program)
    /\ Len(state.tape) < MaxTape
    /\ state.execution_counter[state.program_counter + 1] < MaxExec
    /\ LET inst == At(state.program, state.program_counter)
       IN IF inst = Read
            THEN \E read_res \in ReadResults(io) :
                    /\ state' = interp_step(state, read_res)
                    /\ io' = [io EXCEPT !.in = Append(@, read_res), !.eof = read_res.eof]
            ELSE /\ state' = interp_step(state, [eof |-> TRUE, byte |-> 0])
                 /\ io' = IF inst = Write /\ cell_at_head(state) # Unknown
                            THEN [io EXCEPT !.out = Append(@, cell_at_head(state))]
                            ELSE io
    /\ UNCHANGED <<phase, source, program, input, machine, reference, emitted_insts>>

InterpReturn ==
    /\ phase.at = "eval" /\ phase.run = "interp"
    /\ state.program_counter >= Len(state.program)
    /\ state' = new(program)
    /\ phase' = [phase EXCEPT !.run = "partial_eval"]
    /\ UNCHANGED <<source, program, input, machine, reference, emitted_insts, io>>

PartialEvalStep ==
    /\ phase.run = "partial_eval"
    /\ ~state.panicked
    /\ state.program_counter < Len(state.program)
    /\ Len(state.tape) < MaxTape
    /\ Len(emitted_insts) < MaxEmitted
    /\ LET r == [st |-> state, insts |-> emitted_insts, broke |-> FALSE]
           after == partial_eval_step(r)
       IN /\ state' = after.st
          /\ emitted_insts' = after.insts
          /\ phase' = IF after.broke THEN [phase EXCEPT !.run = "break"] ELSE phase
          /\ reference' = outermost_entry(reference, r)
    /\ UNCHANGED <<source, program, input, machine, io>>

PartialEvalRestore ==
    /\ \/ phase.run = "break"
       \/ phase.run = "partial_eval" /\ state.program_counter >= Len(state.program)
    /\ LET after == partial_eval_restore([st |-> state, insts |-> emitted_insts, broke |-> FALSE])
       IN /\ state' = after.st
          /\ emitted_insts' = after.insts
    /\ phase' = [phase EXCEPT !.run = "restored"]
    /\ UNCHANGED <<source, program, input, machine, reference, io>>

PartialEvalReturn ==
    /\ phase.run = "restored"
    /\ LET r == [st |-> state, insts |-> emitted_insts, broke |-> FALSE]
           after == partial_eval_tail(partial_eval_preamble(r))
       IN /\ state' = after.st
          /\ emitted_insts' = after.insts
          /\ program' = after.insts
    /\ machine' = NoMachine
    /\ phase' = [phase EXCEPT !.run = "residual"]
    /\ UNCHANGED <<source, input, reference, io>>

ResidualStep ==
    /\ phase.at = "eval" /\ phase.run = "residual"
    /\ machine.pc < Len(program)
    /\ Len(machine.out) <= Len(io.out)
    /\ IF At(program, machine.pc) # Read
         THEN /\ asm_in_window(machine, program, 0)
              /\ machine' = asm_step(machine, program, 0)
              /\ io' = io
         ELSE IF io.taken < Len(io.in)
           THEN /\ asm_in_window(machine, program, getchar_al(io.in[io.taken + 1]))
                /\ machine' = asm_step(machine, program, getchar_al(io.in[io.taken + 1]))
                /\ io' = [io EXCEPT !.taken = @ + 1]
           ELSE \E read_res \in ReadResults(io) :
                   /\ asm_in_window(machine, program, getchar_al(read_res))
                   /\ machine' = asm_step(machine, program, getchar_al(read_res))
                   /\ io' = [io EXCEPT !.in = Append(@, read_res), !.eof = read_res.eof,
                                       !.taken = @ + 1]
    /\ UNCHANGED <<phase, source, program, input, reference, state, emitted_insts>>

ResidualReturn ==
    /\ phase.at = "eval" /\ phase.run = "residual"
    /\ machine.pc >= Len(program)
    /\ phase' = [phase EXCEPT !.run = "done"]
    /\ UNCHANGED <<source, program, input, machine, reference, state, emitted_insts, io>>

EvalNext ==
    \/ InterpStep \/ InterpReturn
    \/ PartialEvalStep \/ PartialEvalRestore \/ PartialEvalReturn
    \/ ResidualStep \/ ResidualReturn

SpecEval == EvalInit /\ [][EvalNext]_vars

(***************************************************************************)
(* C1: for every bracket-balanced program of the eight primitives and      *)
(* every input on which interp halts, the residual program partial_eval    *)
(* returns, run on that input from an all-zero tape with the head at the   *)
(* origin, writes exactly the bytes interp wrote.                          *)
(***************************************************************************)
C1_ResidualWritesWhatInterpWrites ==
    (phase.at = "eval" /\ phase.run = "done") => machine.out = io.out

(***************************************************************************)
(* C4: when partial_eval breaks on an Unknown cell while a snapshot is     *)
(* live, the state it continues from is the one at which the outermost     *)
(* enclosing loop was first entered: program counter, tape, head_pos,      *)
(* outputted_head_pos, tape_offset and the instruction buffer.             *)
(***************************************************************************)
C4_AbortRestoresFirstEntry ==
    (phase.at = "eval" /\ phase.run = "restored" /\ state.loop_enter_state.live) =>
        /\ reference.live
        /\ state.program_counter = reference.program_counter
        /\ state.tape = reference.tape
        /\ state.head_pos = reference.head_pos
        /\ state.outputted_head_pos = reference.outputted_head_pos
        /\ state.tape_offset = reference.tape_offset
        /\ emitted_insts = reference.emitted_insts

(***************************************************************************)
(* From the instruction vector to a run or an emitted artifact: the        *)
(* interpreter (State::new, interp) and compile_to_asm with and without    *)
(* partial evaluation, on programs whose brackets need not balance.        *)
(***************************************************************************)
JumpPrograms == SeqsUpTo({JumpIfZero, JumpUnlessZero, Increment, MoveRight}, MaxJumpLen)

JumpInit ==
    /\ source = <<>>
    /\ input \in JumpPrograms
    /\ program = input
    /\ phase \in {[at |-> "pipeline", mode |-> "interp", do_partial_eval |-> FALSE, run |-> "entry"],
                  [at |-> "pipeline", mode |-> "compile", do_partial_eval |-> FALSE, run |-> "entry"],
                  [at |-> "pipeline", mode |-> "compile", do_partial_eval |-> TRUE, run |-> "entry"]}
    /\ machine = NoMachine
    /\ reference = None
    /\ state = NoState
    /\ emitted_insts = <<>>
    /\ io = NoIO

\* State::new, called for interp and by compile.rs's partial_eval.
StateNew ==
    /\ phase.at = "pipeline" /\ phase.run = "entry"
    /\ phase.mode = "interp" \/ phase.do_partial_eval
    /\ state' = new(program)
    /\ phase' = [phase EXCEPT !.run = IF new(program).panicked THEN "panic"
                                      ELSE IF phase.mode = "interp" THEN "interp"
                                      ELSE "partial_eval"]
    /\ UNCHANGED <<source, program, input, machine, reference, emitted_insts, io>>

InterpExit ==
    /\ phase.at = "pipeline" /\ phase.run = "interp"
    /\ state.program_counter >= Len(state.program)
    /\ phase' = [phase EXCEPT !.run = "done"]
    /\ UNCHANGED <<source, program, input, machine, reference, state, emitted_insts, io>>

\* compile_to_asm, lines 338-344, under each setting of the two flags.
CompileRewrite ==
    /\ phase.at = "pipeline" /\ phase.mode = "compile"
    /\ phase.run = "residual" \/ (phase.run = "entry" /\ ~phase.do_partial_eval)
    /\ \E do_simplify_loops \in BOOLEAN, do_simplify_scans \in BOOLEAN :
          LET simplified == IF do_simplify_loops THEN simplify_loops_run(program)
                            ELSE [program |-> program, panicked |-> FALSE]
              vectorized == IF do_simplify_scans THEN vectorize_scans(simplified.program)
                            ELSE simplified.program
          IN /\ program' = IF simplified.panicked THEN program ELSE vectorized
             /\ phase' = [phase EXCEPT !.run = IF simplified.panicked THEN "panic" ELSE "emit"]
    /\ UNCHANGED <<source, input, machine, reference, state, emitted_insts, io>>

\* compile_to_asm, lines 346-522: the loop over the instructions, which
\* panics when label_stack.pop() finds the stack empty, and the return.
Emit ==
    /\ phase.at = "pipeline" /\ phase.run = "emit"
    /\ phase' = [phase EXCEPT !.run = IF asm_labels(program).panicked THEN "panic"
                                      ELSE "emitted"]
    /\ UNCHANGED <<source, program, input, machine, reference, state, emitted_insts, io>>

JumpNext ==
    \/ StateNew
    \/ InterpStep \/ InterpExit
    \/ PartialEvalStep \/ PartialEvalRestore \/ PartialEvalReturn
    \/ CompileRewrite \/ Emit

SpecJump == JumpInit /\ [][JumpNext]_vars

JumpIndices(p) == {i \in 0..(Len(p) - 1) : At(p, i) \in {JumpIfZero, JumpUnlessZero}}

(***************************************************************************)
(* C6: for every bracket-balanced program the jump table is defined        *)
(* exactly at the indices holding a JumpIfZero or a JumpUnlessZero, maps   *)
(* each JumpIfZero to its matching JumpUnlessZero and back, and            *)
(* T[T[i]] = i for every jump index i.                                     *)
(***************************************************************************)
C6_JumpTableSymmetric ==
    (phase.at = "pipeline" /\ "jump_dests" \in DOMAIN state /\ Balanced(input)) =>
        LET T == state.jump_dests
        IN /\ ~state.panicked
           /\ DOMAIN T = JumpIndices(input)
           /\ \A i \in JumpIndices(input), j \in JumpIndices(input) :
                 IsLoop(input, i + 1, j + 1) => T[i] = j /\ T[j] = i
           /\ \A i \in JumpIndices(input) : T[i] \in DOMAIN T /\ T[T[i]] = i

C6_Witness ==
    /\ phase.at = "pipeline" /\ "jump_dests" \in DOMAIN state /\ Balanced(input)
    /\ \E i \in DOMAIN state.jump_dests, k \in DOMAIN state.jump_dests :
          /\ At(input, i) = JumpIfZero /\ At(input, k) = JumpIfZero
          /\ i < k /\ k < state.jump_dests[i]
    /\ \E i \in DOMAIN state.jump_dests :
          At(input, i) = JumpUnlessZero /\ state.jump_dests[i] > 0

(***************************************************************************)
(* C7: every program with an unmatched JumpIfZero or JumpUnlessZero fails  *)
(* at jump-table construction on the interpreter path and on every compile *)
(* path, with or without partial evaluation: it reaches neither            *)
(* interpretation nor rewriting nor code emission.                         *)
(***************************************************************************)
C7_UnbalancedFailsAtJumpTable ==
    (phase.at = "pipeline" /\ ~Balanced(input)) =>
        /\ phase.run \in {"entry", "panic"}
        /\ phase.run = "panic" => ("jump_dests" \in DOMAIN state /\ state.panicked)

(***************************************************************************)
(* main.rs: main reads the file, builds the State and interprets it.       *)
(***************************************************************************)
MainSources ==
    {src \in SeqsUpTo(OpcodeChars, MaxEvalLen) : Balanced(lex(src))}
        \cup {<<",", "<", ",", ">", ".">>, <<",", "[", "-", "]", ".">>,
              <<"+", "+", "[", ">", ",", ".", "<", "-", "]">>}

MainInit ==
    /\ source \in MainSources
    /\ input = lex(source)
    /\ program = input
    /\ phase = [at |-> "main", run |-> "interp"]
    /\ machine = NoMachine
    /\ reference = None
    /\ state = main_new(source)
    /\ emitted_insts = <<>>
    /\ io = NoIO

MainStep ==
    /\ phase.at = "main" /\ phase.run = "interp"
    /\ state.program_counter < Len(state.program)
    /\ Len(state.tape) < MaxTape
    /\ Len(io.out) < MaxOutput
    /\ LET inst == At(state.program, state.program_counter)
       IN IF inst = Read
            THEN \E read_res \in ReadResults(io) :
                    /\ state' = main_interp_step(state, read_res)
                    /\ io' = [io EXCEPT !.in = Append(@, read_res), !.eof = read_res.eof]
            ELSE /\ state' = main_interp_step(state, [eof |-> TRUE, byte |-> 0])
                 /\ io' = IF inst = Write
                            THEN [io EXCEPT !.out = @ \o main_write_bytes(At(state.tape, state.head_pos))]
                            ELSE io
    /\ UNCHANGED <<phase, source, program, input, machine, reference, emitted_insts>>

MainReturn ==
    /\ phase.at = "main" /\ phase.run = "interp"
    /\ state.program_counter >= Len(state.program)
    /\ phase' = [phase EXCEPT !.run = "done"]
    /\ UNCHANGED <<source, program, input, machine, reference, state, emitted_insts, io>>

MainNext == MainStep \/ MainReturn

SpecMain == MainInit /\ [][MainNext]_vars

(***************************************************************************)
(* C13: in the concrete interpreter a Read at the end of the input is no   *)
(* error: it stores 255 in the cell under the head, leaves every other     *)
(* cell and the head as they are, and advances the program counter by 1.   *)
(***************************************************************************)
ReadAtEndOfInput ==
    /\ phase.run = "interp"
    /\ state.program_counter < Len(state.program)
    /\ At(state.program, state.program_counter) = Read
    /\ io'.eof

C13_ReadAtEndOfInputStores255 ==
    [][ReadAtEndOfInput =>
          /\ state'.tape = Put(state.tape, state.head_pos, 255)
          /\ state'.head_pos = state.head_pos
          /\ state'.program_counter = state.program_counter + 1]_vars

(***************************************************************************)
(* C14: cell arithmetic wraps modulo 256 and never fails.  In interp and   *)
(* on a Val cell in partial_eval, Increment turns 255 into 0 and any other *)
(* value v into v + 1, Decrement turns 0 into 255 and any other value v    *)
(* into v - 1, without a panic; every cell of the tape is in 0..255 (or    *)
(* Unknown in partial_eval) in every state.                                *)
(***************************************************************************)
Evaluating == phase.at = "eval" /\ phase.run \in {"interp", "partial_eval"}

Dispatches(inst) ==
    /\ Evaluating
    /\ state.program_counter < Len(state.program)
    /\ At(state.program, state.program_counter) = inst
    /\ state' # state

CellsInRange ==
    phase.at = "eval" =>
        \A k \in 1..Len(state.tape) :
            \/ state.tape[k] \in 0..255
            \/ phase.run # "interp" /\ state.tape[k] = Unknown

ArithmeticWraps ==
    \A inst \in {Increment, Decrement} :
        Dispatches(inst) /\ cell_at_head(state) # Unknown =>
            LET v == cell_at_head(state)
                w == IF inst = Increment
                       THEN (IF v = 255 THEN 0 ELSE v + 1)
                       ELSE (IF v = 0 THEN 255 ELSE v - 1)
            IN /\ ~state'.panicked
               /\ state'.tape = Put(state.tape, state.head_pos, w)
               /\ state'.head_pos = state.head_pos

C14_CellArithmeticWraps == [](CellsInRange) /\ [][ArithmeticWraps]_vars

C14_Witness ==
    /\ Evaluating
    /\ Len(program) >= 2 /\ program[1] = Decrement /\ program[2] = Increment
    /\ state.program_counter = 2
    /\ state.tape = <<0>>
    /\ ~state.panicked

(***************************************************************************)
(* C15: in interp and in partial_eval the head is inside the tape in every *)
(* state; a State starts with a tape of one zero cell and the head at 0;   *)
(* MoveRight from the last cell appends exactly one zero cell; MoveLeft at *)
(* index 0 prepends exactly one zero cell and leaves head_pos at 0; and    *)
(* the tape never gets shorter, except where partial_eval puts back the    *)
(* tape of its loop-entry snapshot after a break.                          *)
(***************************************************************************)
HeadInTape ==
    phase.at = "eval" => 0 <= state.head_pos /\ state.head_pos < Len(state.tape)

StartsAsOneZeroCell(st) == st.tape = <<0>> /\ st.head_pos = 0

\* State::new is run once for interp and once more for partial_eval.
NewState == phase.at = "eval" /\ phase.run = "interp" /\ phase'.run = "partial_eval"

MovesGrowByOne ==
    /\ NewState => StartsAsOneZeroCell(state')
    /\ Dispatches(MoveRight) =>
          /\ state'.head_pos = state.head_pos + 1
          /\ state.head_pos = Len(state.tape) - 1 => state'.tape = Append(state.tape, 0)
    /\ Dispatches(MoveLeft) /\ state.head_pos = 0 =>
          /\ state'.tape = <<0>> \o state.tape
          /\ state'.head_pos = 0

SnapshotRestore == phase.at = "eval" /\ phase.run = "break"

TapeNoShorter == Len(state'.tape) >= Len(state.tape)

\* The statement without the exception for the snapshot restore.
C15_TapeNeverShrinks ==
    /\ phase.at = "eval" => StartsAsOneZeroCell(state)
    /\ [](HeadInTape)
    /\ [][MovesGrowByOne]_vars
    /\ [][phase.at = "eval" /\ ~NewState => TapeNoShorter]_vars

C15_TapeShrinksOnlyAtRestore ==
    /\ phase.at = "eval" => StartsAsOneZeroCell(state)
    /\ [](HeadInTape)
    /\ [][MovesGrowByOne]_vars
    /\ [][phase.at = "eval" /\ ~NewState /\ ~SnapshotRestore => TapeNoShorter]_vars

\* After the break at the inner loop of >++[->,[->+<]]>. the tape of three
\* cells is replaced by the snapshot's tape of two.
C15_Witness ==
    /\ phase.at = "eval" /\ phase.run = "restored"
    /\ state.loop_enter_state.live
    /\ state.tape = <<0, 2>> /\ state.head_pos = 1
    /\ At(program, 6) = Read

(***************************************************************************)
(* C16: interp adds one to execution_counter[pc] in every iteration,       *)
(* before it dispatches the instruction at pc, and changes no other        *)
(* counter; the counters start at zero, so execution_counter[i] is the     *)
(* number of dispatches of instruction i so far; the vector has the        *)
(* program's length in every state.                                        *)
(***************************************************************************)
CounterHasProgramLength ==
    phase.at = "eval" => Len(state.execution_counter) = Len(state.program)

CountersStartAtZero(st) == \A i \in 1..Len(st.program) : st.execution_counter[i] = 0

InterpDispatch ==
    /\ phase.at = "eval" /\ phase.run = "interp" /\ phase'.run = "interp"
    /\ state' # state

CountsTheDispatch ==
    InterpDispatch =>
        /\ state.program_counter < Len(state.program)
        /\ state'.execution_counter =
              [state.execution_counter EXCEPT ![state.program_counter + 1] = @ + 1]

\* Dispatches of i are the steps of interp taken at pc = i: the sum of the
\* counters is the number of steps, one for a straight-line program's every
\* instruction passed.
StraightLineCounts ==
    phase.at = "eval" /\ phase.run = "interp"
        /\ (\A i \in 1..Len(program) : program[i].op \notin {"JumpIfZero", "JumpUnlessZero"})
    => \A i \in 1..Len(program) :
          state.execution_counter[i] = IF i <= state.program_counter THEN 1 ELSE 0

C16_CounterCountsDispatches ==
    /\ phase.at = "eval" => CountersStartAtZero(state)
    /\ [](CounterHasProgramLength)
    /\ [](StraightLineCounts)
    /\ [][CountsTheDispatch]_vars

\* ++[>+<-]>. at the end of interp: the loop's instructions ran twice.
C16_Witness ==
    /\ phase.at = "eval" /\ phase.run = "interp"
    /\ state.program_counter = Len(state.program)
    /\ state.execution_counter = <<1, 1, 2, 2, 2, 2, 2, 2, 1, 1>>

(***************************************************************************)
(* interp.rs: the profile.  The program is interpreted and                 *)
(* print_profile_info calls get_loop_executions on the State after the     *)
(* run; reference holds the two vectors it returns.                        *)
(***************************************************************************)
\* The programs of test_get_loop_profile_*.
ProfileExamples ==
    {lex(<<"+", "+", "+", "+", "+">>),
     lex(<<">", "+", "+", "+", "[", ">", "+", "+", "+", "<", "-", "]">>),
     lex(<<"+", "+", "+", ">", "[", ">", "+", "+", "+", "<", "-", "]">>),
     lex(<<">", "+", "+", "+", "[", ">", ".", "+", "+", "+", "<", "-", "]">>),
     lex(<<">", "+", "+", "+", "[", ">", "]">>),
     lex(<<">", "+", "+", "+", "+", "[", ">", "+", "<", "-", "-", "]">>),
     lex(<<">", "+", "+", "+", "[", ">", "+", "+", "+", "+", "+", "[", ">", "+", "+", "<", "-", "]", "<", "-", "]">>),
     lex(<<">", "+", "+", "+", "[", ">", "+", "+", "+", "+", "+", "+", "[", ">", "+", "+", "<", "-", "-", "]", "<", "-", "]">>),
     lex(<<"+", "+", "+", "[", ">", "-", "-", "<", "-", "]", "+", "+", "[", ">", "-", "-", "<", "-", "]", "+", "+", "+", "+", "[", ">", "-", "-", "<", "-", "]">>),
     lex(<<"+", "+", "+", "+", "[", ">", "-", "-", "<", "-", "-", "]", "+", "+", "[", ">", "-", "-", "<", "-", "-", "]", "+", "+", "+", "+", "+", "+", "[", ">", "-", "-", "<", "-", "-", "]">>)}

\* Loops that run 0, 1 or 2 times and leave their cell 0, simple, complex
\* and nested, as the loops of test_get_loop_profile_*_sorted and *_nested.
ProfileSegments ==
    {lex(<<"[", "-", "]">>), lex(<<"+", "[", "-", "]">>), lex(<<"+", "+", "[", "-", "]">>),
     lex(<<"+", "[", "[", "-", "]", "]">>),
     lex(<<"+", "[", ".", "-", "]">>), lex(<<"+", "+", "[", ".", "-", "]">>)}

RECURSIVE Concat(_)
Concat(segments) ==
    IF segments = <<>> THEN <<>> ELSE Head(segments) \o Concat(Tail(segments))

\* Several such loops one after the other.
ProfileSequences == {Concat(segments) : segments \in SeqsUpTo(ProfileSegments, MaxSegments)}

LoopBodyOps == {MoveRight, MoveLeft, Increment, Decrement, Write, Read}

\* One loop with any short body, behind nothing, a move or a write.
ProfilePrograms ==
    {pre \o <<JumpIfZero>> \o body \o <<JumpUnlessZero>> :
        pre \in {<<>>, <<MoveRight>>, <<Write>>}, body \in SeqsUpTo(LoopBodyOps, MaxProfileBody)}
      \cup ProfileExamples \cup ProfileSequences

ProfileInit ==
    /\ program \in ProfilePrograms
    /\ input = program
    /\ source = <<>>
    /\ phase = [at |-> "profile", run |-> "interp"]
    /\ machine = NoMachine
    /\ reference = None
    /\ state = new(program)
    /\ emitted_insts = <<>>
    /\ io = NoIO

PrintProfileInfo ==
    /\ phase.at = "profile" /\ phase.run = "interp"
    /\ state.program_counter >= Len(state.program)
    /\ reference' = get_loop_executions(state)
    /\ phase' = [phase EXCEPT !.run = "profiled"]
    /\ UNCHANGED <<source, program, input, machine, state, emitted_insts, io>>

ProfileNext == InterpStep \/ PrintProfileInfo

SpecProfile == ProfileInit /\ [][ProfileNext]_vars

(***************************************************************************)
(* C17: every loop that get_loop_executions records is in simple_loops if  *)
(* and only if its body has no Read and no Write, the body's net head      *)
(* displacement is 0 and the Increments minus the Decrements made at       *)
(* running displacement 0 are +1 or -1; otherwise it is in complex_loops;  *)
(* no loop is in both vectors.                                             *)
(***************************************************************************)
Profiled == phase.at = "profile" /\ phase.run = "profiled"

\* The slots of the recorded loop l in the program, counted from 1.
LoopOpen(l) == l.pc + 1
LoopClose(l) == l.pc + Len(l.insts)

Recorded(l) ==
    /\ LoopClose(l) <= Len(program)
    /\ l.insts = SubSeq(program, LoopOpen(l), LoopClose(l))
    /\ IsLoop(program, LoopOpen(l), LoopClose(l))

SimpleBody(p, i, j) ==
    /\ \A k \in (i + 1)..(j - 1) : p[k] \notin {Read, Write}
    /\ HeadBefore(p, i, j) = 0
    /\ NetChange(p, i, j, 0) \in {1, -1}

C17_SimpleIffCountedWithoutIO ==
    Profiled =>
        /\ \A k \in 1..Len(reference.simple_loops) :
              LET l == reference.simple_loops[k]
              IN Recorded(l) /\ SimpleBody(program, LoopOpen(l), LoopClose(l))
        /\ \A k \in 1..Len(reference.complex_loops) :
              LET l == reference.complex_loops[k]
              IN Recorded(l) /\ ~SimpleBody(program, LoopOpen(l), LoopClose(l))
        /\ \A k \in 1..Len(reference.simple_loops), m \in 1..Len(reference.complex_loops) :
              reference.simple_loops[k].pc # reference.complex_loops[m].pc

\* >+++[>+++<-] is simple, executed 3 times.
C17_Witness ==
    /\ Profiled
    /\ Len(reference.simple_loops) = 1 /\ Len(reference.complex_loops) = 0
    /\ reference.simple_loops[1].pc = 4
    /\ reference.simple_loops[1].num_times_executed = 3

(***************************************************************************)
(* C18: on a Val cell partial_eval emits nothing for MoveRight, MoveLeft,  *)
(* Increment and Decrement and exactly Output(b) for a Write, b the value  *)
(* of the cell; so for a program without Read that interp runs to its end  *)
(* the residual is Output(b1), ..., Output(bn) for the bytes b1..bn that   *)
(* interp wrote, and nothing else.                                         *)
(***************************************************************************)
PartialEvalDispatches(inst) ==
    /\ phase.at = "eval" /\ phase.run = "partial_eval"
    /\ state.program_counter < Len(state.program)
    /\ At(state.program, state.program_counter) = inst
    /\ state' # state

KnownCellEmits ==
    cell_at_head(state) # Unknown =>
        /\ \A inst \in {MoveRight, MoveLeft, Increment, Decrement} :
              PartialEvalDispatches(inst) => emitted_insts' = emitted_insts
        /\ PartialEvalDispatches(Write) =>
              emitted_insts' = Append(emitted_insts, Output(cell_at_head(state)))

OutputsOf(bytes) == [k \in 1..Len(bytes) |-> Output(bytes[k])]

HasNoRead(p) == \A k \in 1..Len(p) : p[k] # Read

ResidualIsTheOutputs ==
    phase.at = "eval" /\ phase.run \in {"residual", "done"} /\ HasNoRead(input)
        => program = OutputsOf(io.out)

C18_KnownCellsLeaveOnlyOutputs == [](ResidualIsTheOutputs) /\ [][KnownCellEmits]_vars

\* ++[>+<-]>. leaves Output(2).
C18_Witness ==
    /\ phase.at = "eval" /\ phase.run = "residual"
    /\ HasNoRead(input) /\ \E k \in 1..Len(input) : input[k] = JumpIfZero
    /\ io.out = <<2>>
    /\ program = <<Output(2)>>

(***************************************************************************)
(* C19: in partial_eval a Read is emitted as Read and leaves the cell      *)
(* under the head Unknown; an Increment, Decrement or Write on an Unknown  *)
(* cell is emitted as the same instruction and leaves the tape as it is;   *)
(* each is appended to the buffer, after a SetHeadPos when the head has to *)
(* be synced, so the buffer keeps the program's order; and no step of      *)
(* partial_eval but the snapshot restore makes an Unknown cell known.      *)
(***************************************************************************)
\* after is before with inst appended, behind at most one SetHeadPos.
EmittedLast(before, after, inst) ==
    \/ after = Append(before, inst)
    \/ /\ Len(after) = Len(before) + 2
       /\ SubSeq(after, 1, Len(before)) = before
       /\ after[Len(before) + 1].op = "SetHeadPos"
       /\ after[Len(before) + 2] = inst

UnknownCellEmits ==
    /\ PartialEvalDispatches(Read) =>
          /\ EmittedLast(emitted_insts, emitted_insts', Read)
          /\ state'.tape = Put(state.tape, state.head_pos, Unknown)
          /\ state'.head_pos = state.head_pos
    /\ \A inst \in {Increment, Decrement, Write} :
          PartialEvalDispatches(inst) /\ cell_at_head(state) = Unknown =>
              /\ EmittedLast(emitted_insts, emitted_insts', inst)
              /\ state'.tape = state.tape
              /\ state'.head_pos = state.head_pos

RestoreStep == phase.run # "restored" /\ phase'.run = "restored"

UnknownStaysUnknown ==
    phase.at = "eval" /\ phase.run \in {"partial_eval", "break", "restored"} /\ ~RestoreStep =>
        LET shift == state'.tape_offset - state.tape_offset
        IN \A k \in 1..Len(state.tape) :
              state.tape[k] = Unknown =>
                  k + shift \in 1..Len(state'.tape) /\ state'.tape[k + shift] = Unknown

C19_UnknownCellsAreEmitted == [][UnknownCellEmits /\ UnknownStaysUnknown]_vars

\* ,+. leaves Read, Increment, Write and the cell Unknown.
C19_Witness ==
    /\ phase.at = "eval" /\ phase.run = "partial_eval"
    /\ emitted_insts = <<Read, Increment, Write>>
    /\ state.tape = <<Unknown>>

(***************************************************************************)
(* compile.rs: compile_asm_to_exe and compile_llvm_to_exe.  phase.step is  *)
(* the statement the function is at; state holds what the call has done:   *)
(* the files in the temporary directory, whether output_path holds an      *)
(* executable and whether it is of this call, clang's exit status (-1      *)
(* before clang has run), the result of the call and what the caller of    *)
(* the test helpers did with it.  What the file system and clang answer is *)
(* chosen by the environment.                                              *)
(***************************************************************************)
ExeFunctions == {"compile_asm_to_exe", "compile_llvm_to_exe"}

ExitStatuses == 0..MaxExitStatus

ExeAt(step) == phase.at = "exe" /\ phase.step = step

ExeGoto(step) == phase' = [phase EXCEPT !.step = step]

ExeFinish(result) ==
    /\ state' = [state EXCEPT !.result = result, !.files = {}]
    /\ phase' = [phase EXCEPT !.step = "returned"]

ExeIdle == UNCHANGED <<source, program, input, machine, reference, emitted_insts, io>>

ExeInit ==
    /\ \E fn \in ExeFunctions, dump \in BOOLEAN :
          /\ fn = "compile_asm_to_exe" => ~dump
          /\ phase = [at |-> "exe", run |-> fn, dump_llvm |-> dump, step |-> "tempdir"]
    /\ \E stale \in BOOLEAN :
          state = [result |-> "running", files |-> {}, exe |-> stale, fresh |-> FALSE,
                   status |-> 0 - 1, caller |-> "waiting"]
    /\ source = <<>>
    /\ program = <<>>
    /\ input = <<>>
    /\ machine = NoMachine
    /\ reference = None
    /\ emitted_insts = <<>>
    /\ io = NoIO

\* tempfile::Builder ... .tempdir_in(".").map_err(..)?
ExeTempdir ==
    /\ ExeAt("tempdir")
    /\ \E ok \in BOOLEAN :
          IF ok THEN ExeGoto("runner") /\ state' = state
          ELSE ExeFinish("Err")
    /\ ExeIdle

\* File::create(runner_path).map_err(..)? and write!(..).unwrap()
ExeWriteRunner ==
    /\ ExeAt("runner")
    /\ \E created \in BOOLEAN, written \in BOOLEAN :
          IF ~created THEN ExeFinish("Err")
          ELSE IF ~written THEN ExeFinish("panicked")
          ELSE /\ state' = [state EXCEPT !.files = @ \cup {"bf_main.c"}]
               /\ ExeGoto(IF phase.run = "compile_asm_to_exe" THEN "program" ELSE "target")
    /\ ExeIdle

\* compile_asm_to_exe: File::create(bf_asm_path).map_err(..)? and write!(..).unwrap()
ExeWriteAsm ==
    /\ ExeAt("program") /\ phase.run = "compile_asm_to_exe"
    /\ \E created \in BOOLEAN, written \in BOOLEAN :
          IF ~created THEN ExeFinish("Err")
          ELSE IF ~written THEN ExeFinish("panicked")
          ELSE /\ state' = [state EXCEPT !.files = @ \cup {"bf_program.S"}]
               /\ ExeGoto("clang")
    /\ ExeIdle

\* compile_llvm_to_exe: Target::from_triple(..).unwrap(),
\* create_target_machine(..).unwrap()
ExeTargetMachine ==
    /\ ExeAt("target") /\ phase.run = "compile_llvm_to_exe"
    /\ \E ok \in BOOLEAN :
          IF ok THEN ExeGoto("program") /\ state' = state
          ELSE ExeFinish("panicked")
    /\ ExeIdle

\* compile_llvm_to_exe: write_to_file(..).unwrap() and, under dump_llvm,
\* write_bitcode_to_path, whose answer is dropped.
ExeWriteObject ==
    /\ ExeAt("program") /\ phase.run = "compile_llvm_to_exe"
    /\ \E written \in BOOLEAN, dumped \in BOOLEAN :
          IF ~written THEN ExeFinish("panicked")
          ELSE /\ state' = [state EXCEPT !.files =
                               @ \cup {"bf_program.o"}
                                 \cup (IF phase.dump_llvm /\ dumped THEN {"bf_program.bc"} ELSE {})]
               /\ ExeGoto("clang")
    /\ ExeIdle

\* Command::new("clang") ... .status().expect(..): expect panics when clang
\* could not be run; the ExitStatus it yields otherwise is dropped.  clang
\* writes output_path only when it exits with 0.
ExeClang ==
    /\ ExeAt("clang")
    /\ \/ ExeFinish("panicked")
       \/ \E exit_status \in ExitStatuses :
             /\ state' = [state EXCEPT !.status = exit_status,
                                       !.exe = @ \/ exit_status = 0,
                                       !.fresh = exit_status = 0]
             /\ ExeGoto("return")
    /\ ExeIdle

\* return Ok(());
ExeReturn ==
    /\ ExeAt("return")
    /\ ExeFinish("Ok")
    /\ ExeIdle

\* compile_and_run_asm_with_input, compile_and_run_llvm_with_input:
\* compile_.._to_exe(..).expect("failed to compile program")
ExeCallerExpect ==
    /\ ExeAt("returned")
    /\ IF state.result = "Ok"
         THEN ExeGoto("spawn") /\ state' = state
         ELSE ExeGoto("caller done") /\ state' = [state EXCEPT !.caller = "panicked"]
    /\ ExeIdle

\* Command::new(exe_path) ... .spawn().expect("Error starting BF program.")
ExeCallerSpawn ==
    /\ ExeAt("spawn")
    /\ \E started \in BOOLEAN :
          state' = [state EXCEPT !.caller = IF state.exe /\ started THEN "running the executable"
                                            ELSE "panicked"]
    /\ ExeGoto("caller done")
    /\ ExeIdle

ExeNext ==
    \/ ExeCallerExpect
    \/ ExeCallerSpawn
    \/ ExeTempdir
    \/ ExeWriteRunner
    \/ ExeWriteAsm
    \/ ExeTargetMachine
    \/ ExeWriteObject
    \/ ExeClang
    \/ ExeReturn

SpecExe == ExeInit /\ [][ExeNext]_vars

(***************************************************************************)
(* C20: when the C compiler that compile_asm_to_exe or compile_llvm_to_exe *)
(* runs exits with a nonzero status, the function returns an error and not *)
(* Ok: a call that returns Ok has produced the executable.                 *)
(***************************************************************************)
C20_CompilerFailureIsAnError ==
    phase.at = "exe" =>
        /\ state.result = "Ok" => state.status = 0 /\ state.fresh
        /\ state.caller = "running the executable" => state.fresh

(***************************************************************************)
(* C21: when the loop of partial_eval has ended before the end of the      *)
(* program (after the restore, program_counter < program.len()), the       *)
(* SetCell instructions of the returned vector are SetCell(i - tape_offset,*)
(* v) for every index i of the tape whose cell is Val(v), in ascending     *)
(* order of i, and none for an Unknown cell; when the loop has reached the *)
(* end of the program the returned vector has no SetCell.                  *)
(***************************************************************************)
Returned == phase.at = "eval" /\ phase.run \in {"residual", "done"}

IsSetCell(inst) == inst.op = "SetCell"

KnownIndices(tape) == Sorted({i \in 0..(Len(tape) - 1) : At(tape, i) # Unknown})

ExpectedSetCells(st) ==
    [k \in 1..Len(KnownIndices(st.tape)) |->
        SetCell(KnownIndices(st.tape)[k] - st.tape_offset,
                At(st.tape, KnownIndices(st.tape)[k]))]

EndedEarly(st) == st.program_counter < Len(st.program)

\* The statement for every exit of the loop, the end of the program included.
C21_SetCellForEveryKnownCell ==
    Returned => SelectSeq(program, IsSetCell) = ExpectedSetCells(state)

C21_SetCellForEveryKnownCellOnAbort ==
    Returned =>
        SelectSeq(program, IsSetCell) =
            IF EndedEarly(state) THEN ExpectedSetCells(state) ELSE <<>>

\* +>++<<+++>>>,[->+<]>. : three known cells behind a shifted origin and one
\* Unknown cell.
C21_Witness ==
    /\ Returned /\ EndedEarly(state)
    /\ state.tape = <<3, 1, 2, Unknown>>
    /\ state.tape_offset = 1
    /\ SelectSeq(program, IsSetCell) = <<SetCell(0 - 1, 3), SetCell(0, 1), SetCell(1, 2)>>

(***************************************************************************)
(* C22: what partial_eval appends to its buffer after the loop is at most  *)
(* one SetHeadPos, then at most tape.len() SetCell instructions, then the  *)
(* instructions of the program from program_counter on; the buffer before  *)
(* it is kept, and may hold more SetHeadPos instructions, one in front of  *)
(* each emitted primitive for which the head had to be synced.             *)
(***************************************************************************)
IsSetHeadPos(inst) == inst.op = "SetHeadPos"

UnexecutedTail(st) == SubSeq(st.program, st.program_counter + 1, Len(st.program))

\* v is at most one SetHeadPos, then at most n SetCell, then tail.
HeadCellsTail(v, n, tail) ==
    \E h \in {0, 1}, c \in 0..n :
        /\ Len(v) = h + c + Len(tail)
        /\ \A k \in 1..h : IsSetHeadPos(v[k])
        /\ \A k \in (h + 1)..(h + c) : IsSetCell(v[k])
        /\ SubSeq(v, h + c + 1, Len(v)) = tail

\* The statement for the whole returned vector: one SetHeadPos at most in
\* all of it, its SetCell instructions together in front of the tail.
C22_OneSetHeadPosInResidual ==
    Returned =>
        /\ Len(SelectSeq(program, IsSetHeadPos)) <= 1
        /\ \E k \in 0..Len(program) :
              /\ \A m \in 1..k : ~IsSetCell(program[m])
              /\ \E c \in 0..Len(state.tape) :
                    /\ Len(program) = k + c + Len(UnexecutedTail(state))
                    /\ \A m \in (k + 1)..(k + c) : IsSetCell(program[m])
                    /\ SubSeq(program, k + c + 1, Len(program)) = UnexecutedTail(state)

PartialEvalReturns ==
    phase.at = "eval" /\ phase.run = "restored" /\ phase'.run = "residual"

C22_OneSetHeadPosInPreamble ==
    [][PartialEvalReturns =>
          /\ Len(program') >= Len(emitted_insts)
          /\ SubSeq(program', 1, Len(emitted_insts)) = emitted_insts
          /\ HeadCellsTail(SubSeq(program', Len(emitted_insts) + 1, Len(program')),
                           Len(state.tape), UnexecutedTail(state))]_vars

\* +>+++[,]<. : the head is synced to 1, both cells are written, the loop
\* and what follows it are left.
C22_Witness ==
    /\ Returned
    /\ program = <<SetHeadPos(1), SetCell(0, 1), SetCell(1, 3),
                   JumpIfZero, Read, JumpUnlessZero, MoveLeft, Write>>

(***************************************************************************)
(* C23: every Read, Write, Increment and Decrement that partial_eval emits *)
(* acts, when the residual runs, on the logical cell head_pos - tape_offset*)
(* the evaluator's head was on when it emitted it: the last SetHeadPos in  *)
(* the buffer in front of the primitive names that cell (the head starts   *)
(* at 0 when there is none), also after a MoveLeft at index 0 has shifted  *)
(* the tape under a head_pos that stays 0.                                 *)
(***************************************************************************)
\* Where the head of the residual is after the instructions of v, none of
\* which moves it but SetHeadPos.
ResidualHead(v) ==
    LET at == {k \in 1..Len(v) : IsSetHeadPos(v[k])}
    IN IF at = {} THEN 0
       ELSE v[CHOOSE k \in at : \A m \in at : m <= k].a

EmitsPrimitive ==
    \/ PartialEvalDispatches(Read)
    \/ \E inst \in {Increment, Decrement, Write} :
          PartialEvalDispatches(inst) /\ cell_at_head(state) = Unknown

C23_EmittedPrimitiveActsOnLogicalCell ==
    [][EmitsPrimitive =>
          ResidualHead(emitted_insts') = state.head_pos - state.tape_offset]_vars

(***************************************************************************)
(* C24: partial_eval takes its snapshot only at a JumpIfZero on a Val cell *)
(* executed outside every loop (the nesting depth goes from 0 to 1), keeps *)
(* a live snapshot as it is at a JumpIfZero executed at depth 1 or more,   *)
(* and drops the snapshot exactly at a JumpUnlessZero on a Val cell that   *)
(* brings the nesting depth back to 0.  The nesting depth is the number of *)
(* loops around the instruction at program_counter; loop_level equals it.  *)
(***************************************************************************)
NestingDepth(st) == BracketDepth(st.program, 1, st.program_counter)

PartialEvalExecutes ==
    /\ phase.at = "eval" /\ phase.run = "partial_eval" /\ phase'.run = "partial_eval"
    /\ state.program_counter < Len(state.program)
    /\ state' # state

SnapshotDiscipline ==
    PartialEvalExecutes =>
        LET inst == At(state.program, state.program_counter)
            known == cell_at_head(state) # Unknown
            live == state.loop_enter_state.live
            live_after == state'.loop_enter_state.live
        IN /\ ~live /\ live_after =>
                 /\ inst = JumpIfZero /\ known
                 /\ NestingDepth(state) = 0 /\ NestingDepth(state') = 1
                 /\ state'.loop_enter_state =
                        LoopEnterState([st |-> state, insts |-> emitted_insts])
           /\ inst = JumpIfZero /\ NestingDepth(state) >= 1 =>
                 live /\ state'.loop_enter_state = state.loop_enter_state
           /\ live /\ live_after => state'.loop_enter_state = state.loop_enter_state
           /\ live /\ ~live_after <=>
                 inst = JumpUnlessZero /\ known /\ NestingDepth(state') = 0

LoopLevelIsDepth ==
    phase.at = "eval" /\ phase.run = "partial_eval" =>
        /\ state.loop_level = NestingDepth(state)
        /\ state.loop_enter_state.live <=> state.loop_level >= 1

HasInnerBracket(p, i, j) ==
    \E k \in (i + 1)..(j - 1) : p[k] \in {JumpIfZero, JumpUnlessZero}

Encloses(p, i, j, i2, j2) == IsLoop(p, i, j) /\ IsLoop(p, i2, j2) /\ i < i2 /\ j2 < j

C25_NestedLoopsKeepTheirBrackets ==
    AfterSimplifyOnly =>
        /\ \A i \in 1..Len(input), j \in 1..Len(input) :
              IsLoop(input, i, j) /\ HasInnerBracket(input, i, j) =>
                  /\ program[i] = JumpIfZero
                  /\ program[j] = JumpUnlessZero
                  /\ \A k \in i..j : ~InCommittedLoop(input, k) => program[k] = input[k]
        /\ \A i \in 1..Len(input), j \in 1..Len(input),
              i2 \in 1..Len(input), j2 \in 1..Len(input) :
              Encloses(input, i, j, i2, j2) /\ CountedLoop(input, i2, j2) =>
                  /\ \A k \in i2..j2 : program[k].op \in {"Add", "Sub", "Zero", "Nop"}
                  /\ Count(program, i2, j2, Zero) = 1

\* ++[->+++[->+<]<] : the inner loop becomes Add(1), Zero and four Nop, the
\* outer loop stays.
C25_Witness ==
    /\ AfterSimplifyOnly
    /\ program = <<Increment, Increment, JumpIfZero, Decrement, MoveRight, Increment,
                   Increment, Increment, Add(1), Zero, Nop, Nop, Nop, Nop, MoveLeft,
                   JumpUnlessZero>>

(***************************************************************************)
(* C26: after simplify_loops or vectorize_scans has run on a program of    *)
(* primitive tokens, the slots of every rewritten loop hold only the       *)
(* lowered tokens Add, Sub, Zero, Scan and Nop, and every slot outside the *)
(* rewritten loops holds the token it held before: primitive and lowered   *)
(* tokens do appear in one program, but never in one rewritten loop.       *)
(***************************************************************************)
IsPrimitive(inst) == inst \in Primitives

IsLowered(inst) == inst.op \in {"Add", "Sub", "Scan", "Output", "SetHeadPos", "SetCell"}

AfterOnePass == AfterSimplifyOnly \/ AfterVectorizeOnly

InRewrittenLoop(k) ==
    IF AfterSimplifyOnly THEN InCommittedLoop(input, k) ELSE InScanLoop(input, k)

\* The statement for the whole program.
C26_PrimitivesNeverWithLowered ==
    AfterOnePass =>
        ~ /\ \E k \in 1..Len(program) : IsPrimitive(program[k])
          /\ \E k \in 1..Len(program) : IsLowered(program[k])

C26_PrimitivesNeverWithLoweredInOneLoop ==
    AfterOnePass =>
        \A k \in 1..Len(program) :
            IF InRewrittenLoop(k)
              THEN program[k].op \in {"Add", "Sub", "Zero", "Scan", "Nop"}
              ELSE program[k] = input[k]

\* A rewritten loop next to primitive tokens that stay, as in +[>].
C26_Witness ==
    /\ AfterOnePass
    /\ \E k \in 1..Len(program) : IsPrimitive(program[k])
    /\ \E k \in 1..Len(program) : IsLowered(program[k])

(***************************************************************************)
(* C27: in the text compile_to_asm emits for a bracket-balanced program,   *)
(* a JumpIfZero and its matching JumpUnlessZero carry one label number n   *)
(* (the JumpIfZero branches to .UZn and defines .IZn, the JumpUnlessZero   *)
(* branches to .IZn and defines .UZn), the numbers come from one counter   *)
(* that loops and scans share, so that the k-th JumpIfZero or Scan of the  *)
(* program has number k and no two loops or scans share a number, and the  *)
(* label stack is empty when the emitter returns.                          *)
(***************************************************************************)
Emitted == phase.at = "pipeline" /\ phase.run = "emitted"

\* Slots that take a number from the counter.
TakesLabelNum(inst) == inst = JumpIfZero \/ inst.op = "Scan"

TakersBefore(p, k) == Cardinality({i \in 1..(k - 1) : TakesLabelNum(p[i])})

C27_LoopLabelsArePaired ==
    (Emitted /\ Balanced(program)) =>
        LET e == asm_labels(program)
            L == e.labels
        IN /\ ~e.panicked
           /\ Len(L) = Len(program)
           /\ e.label_stack = <<>>
           /\ \A i \in 1..Len(program), j \in 1..Len(program) :
                 IsLoop(program, i, j) =>
                    \E n \in 0..Len(program) :
                       /\ L[i] = [branch |-> <<".UZ", n>>, defines |-> <<".IZ", n>>]
                       /\ L[j] = [branch |-> <<".IZ", n>>, defines |-> <<".UZ", n>>]
           /\ \A k \in 1..Len(program) :
                 IF TakesLabelNum(program[k])
                   THEN L[k].defines[2] = TakersBefore(program, k)
                   ELSE program[k] = JumpUnlessZero \/ L[k] = NoLabels
           /\ \A i \in 1..Len(program), j \in 1..Len(program) :
                 (i < j /\ L[i] # NoLabels /\ L[j] # NoLabels
                        /\ L[i].defines[2] = L[j].defines[2]) => IsLoop(program, i, j)

\* A scan followed by a loop: the loop's number is the one after the scan's.
C27_Witness ==
    /\ Emitted /\ Balanced(program)
    /\ \E s \in 1..Len(program), i \in 1..Len(program), j \in 1..Len(program) :
          /\ program[s].op = "Scan" /\ s < i /\ IsLoop(program, i, j)
          /\ asm_labels(program).labels[s].defines = <<".SCAN", 0>>
          /\ asm_labels(program).labels[j].defines = <<".UZ", 1>>

(***************************************************************************)
(* compile.rs: compile_to_llvm, as far as basic blocks go.  A block is the *)
(* number it is named by (curr_bb), the entry block is EntryBlock.  The    *)
(* emitter's state: basic_blocks, the pre-allocated blocks not yet taken;  *)
(* the two pairing stacks; curr_block, where the builder stands; branches, *)
(* for every instruction visited the conditional branch built for it;      *)
(* terminated, the blocks that have a terminator.                          *)
(***************************************************************************)
MaxLlvmLen == 5

EntryBlock == 0 - 1

NoBranch == [from |-> EntryBlock, on_zero |-> EntryBlock, on_nonzero |-> EntryBlock,
             built |-> FALSE]

LlvmHandled ==
    {"Read", "Write", "Increment", "Add", "Sub", "Zero", "Decrement", "MoveRight",
     "MoveLeft", "JumpIfZero", "JumpUnlessZero", "Nop"}

\* Lines 554-569: one block for every JumpIfZero and every JumpUnlessZero.
llvm_basic_blocks(prog) ==
    [k \in 1..Cardinality({i \in 1..Len(prog) : prog[i] \in {JumpIfZero, JumpUnlessZero}})
        |-> k - 1]

\* Lines 554-580: the state in which the visit of the instructions starts.
llvm_entry(prog) ==
    [basic_blocks |-> llvm_basic_blocks(prog),
     bb_jump_back_stack |-> <<>>, bb_next_stack |-> <<>>,
     curr_block |-> EntryBlock, branches |-> <<>>, terminated |-> {},
     program_counter |-> 0, panicked |-> FALSE]

Pop(stack) == SubSeq(stack, 1, Len(stack) - 1)
Top(stack) == stack[Len(stack)]

\* A JumpIfZero arm that reads the body block without taking it off the list.
llvm_visit_keeps_body_block(e, inst) ==
    IF inst = JumpIfZero
      THEN IF Len(e.basic_blocks) < 2 THEN [e EXCEPT !.panicked = TRUE]
           ELSE LET if_zero == Top(e.basic_blocks)
                    not_zero == Top(Pop(e.basic_blocks))
                IN [e EXCEPT !.basic_blocks = Pop(@),
                             !.branches = Append(@, [from |-> e.curr_block, on_zero |-> if_zero,
                                                     on_nonzero |-> not_zero, built |-> TRUE]),
                             !.terminated = @ \cup {e.curr_block},
                             !.bb_jump_back_stack = Append(@, not_zero),
                             !.bb_next_stack = Append(@, if_zero),
                             !.curr_block = not_zero,
                             !.program_counter = @ + 1]
    ELSE IF inst = JumpUnlessZero
      THEN IF e.bb_jump_back_stack = <<>> \/ e.bb_next_stack = <<>>
             THEN [e EXCEPT !.panicked = TRUE]
           ELSE LET not_zero_bb == Top(e.bb_jump_back_stack)
                    if_zero_bb == Top(e.bb_next_stack)
                IN [e EXCEPT !.bb_jump_back_stack = Pop(@),
                             !.bb_next_stack = Pop(@),
                             !.branches = Append(@, [from |-> e.curr_block, on_zero |-> if_zero_bb,
                                                     on_nonzero |-> not_zero_bb, built |-> TRUE]),
                             !.terminated = @ \cup {e.curr_block},
                             !.curr_block = if_zero_bb,
                             !.program_counter = @ + 1]
    ELSE IF inst.op \in LlvmHandled
      THEN [e EXCEPT !.branches = Append(@, NoBranch), !.program_counter = @ + 1]
    ELSE [e EXCEPT !.panicked = TRUE]

\* Lines 582-751: one turn of the loop over the instructions.  JumpIfZero
\* pops if_zero and not_zero off basic_blocks (unwrap panics on an empty
\* vector), branches and moves the builder to not_zero; JumpUnlessZero pops
\* the two stacks, branches and moves the builder to if_zero_bb; every
\* instruction without an arm panics.
llvm_visit(e, inst) ==
    IF inst = JumpIfZero
      THEN IF Len(e.basic_blocks) < 2 THEN [e EXCEPT !.panicked = TRUE]
           ELSE LET if_zero == Top(e.basic_blocks)
                    not_zero == Top(Pop(e.basic_blocks))
                IN [e EXCEPT !.basic_blocks = Pop(Pop(@)),
                             !.branches = Append(@, [from |-> e.curr_block, on_zero |-> if_zero,
                                                     on_nonzero |-> not_zero, built |-> TRUE]),
                             !.terminated = @ \cup {e.curr_block},
                             !.bb_jump_back_stack = Append(@, not_zero),
                             !.bb_next_stack = Append(@, if_zero),
                             !.curr_block = not_zero,
                             !.program_counter = @ + 1]
    ELSE IF inst = JumpUnlessZero
      THEN IF e.bb_jump_back_stack = <<>> \/ e.bb_next_stack = <<>>
             THEN [e EXCEPT !.panicked = TRUE]
           ELSE LET not_zero_bb == Top(e.bb_jump_back_stack)
                    if_zero_bb == Top(e.bb_next_stack)
                IN [e EXCEPT !.bb_jump_back_stack = Pop(@),
                             !.bb_next_stack = Pop(@),
                             !.branches = Append(@, [from |-> e.curr_block, on_zero |-> if_zero_bb,
                                                     on_nonzero |-> not_zero_bb, built |-> TRUE]),
                             !.terminated = @ \cup {e.curr_block},
                             !.curr_block = if_zero_bb,
                             !.program_counter = @ + 1]
    ELSE IF inst.op \in LlvmHandled
      THEN [e EXCEPT !.branches = Append(@, NoBranch), !.program_counter = @ + 1]
    ELSE [e EXCEPT !.panicked = TRUE]

\* Lines 754-758: build_return ends the builder's block; module.verify()
\* fails, and unwrap panics, when a block of the function has no terminator.
llvm_return(e, prog) ==
    LET done == e.terminated \cup {e.curr_block}
        all == {EntryBlock} \cup {b : b \in 0..(Len(llvm_basic_blocks(prog)) - 1)}
    IN [e EXCEPT !.terminated = done, !.panicked = (done # all)]

LlvmPrograms ==
    SeqsUpTo({JumpIfZero, JumpUnlessZero, Decrement, MoveRight}, MaxLlvmLen)

LlvmAt(run) == phase.at = "llvm" /\ phase.run = run

LlvmInit ==
    /\ input \in LlvmPrograms
    /\ program = input
    /\ \E flag \in BOOLEAN :
          phase = [at |-> "llvm", run |-> "entry", do_simplify_loops |-> flag]
    /\ source = <<>>
    /\ machine = NoMachine
    /\ reference = None
    /\ state = NoState
    /\ emitted_insts = <<>>
    /\ io = NoIO

\* Lines 526-528.
LlvmSimplify ==
    /\ LlvmAt("entry")
    /\ LET simplified == IF phase.do_simplify_loops THEN simplify_loops_run(program)
                         ELSE [program |-> program, panicked |-> FALSE]
       IN /\ program' = IF simplified.panicked THEN program ELSE simplified.program
          /\ phase' = [phase EXCEPT !.run = IF simplified.panicked THEN "panic"
                                            ELSE "allocate"]
    /\ UNCHANGED <<source, input, machine, reference, state, emitted_insts, io>>

LlvmAllocate ==
    /\ LlvmAt("allocate")
    /\ state' = llvm_entry(program)
    /\ phase' = [phase EXCEPT !.run = "visit"]
    /\ UNCHANGED <<source, program, input, machine, reference, emitted_insts, io>>

LlvmVisit ==
    /\ LlvmAt("visit")
    /\ state.program_counter < Len(program)
    /\ state' = llvm_visit(state, At(program, state.program_counter))
    /\ phase' = [phase EXCEPT !.run = IF state'.panicked THEN "panic" ELSE "visit"]
    /\ UNCHANGED <<source, program, input, machine, reference, emitted_insts, io>>

LlvmReturn ==
    /\ LlvmAt("visit")
    /\ state.program_counter >= Len(program)
    /\ state' = llvm_return(state, program)
    /\ phase' = [phase EXCEPT !.run = IF state'.panicked THEN "panic" ELSE "returned"]
    /\ UNCHANGED <<source, program, input, machine, reference, emitted_insts, io>>

LlvmNext == LlvmSimplify \/ LlvmAllocate \/ LlvmVisit \/ LlvmReturn

SpecLlvm == LlvmInit /\ [][LlvmNext]_vars

(***************************************************************************)
(* C28: for every bracket-balanced program compile_to_llvm runs to its     *)
(* return, and there each JumpIfZero has branched to two pre-allocated     *)
(* blocks, a body block (cell nonzero) and an after block (cell zero),     *)
(* that no other loop uses; its matching JumpUnlessZero has branched to    *)
(* the same body block when the cell is nonzero and to the same after      *)
(* block when it is zero; the list of pre-allocated blocks and the two     *)
(* pairing stacks are empty.                                               *)
(***************************************************************************)
LoopBlocks(i) == {state.branches[i].on_zero, state.branches[i].on_nonzero}

C28_LoopBlocksArePaired ==
    (phase.at = "llvm" /\ Balanced(program) /\ phase.run \in {"visit", "returned", "panic"}) =>
        /\ phase.run # "panic"
        /\ phase.run = "returned" =>
              /\ state.basic_blocks = <<>>
              /\ state.bb_jump_back_stack = <<>>
              /\ state.bb_next_stack = <<>>
              /\ \A i \in 1..Len(program), j \in 1..Len(program) :
                    IsLoop(program, i, j) =>
                       /\ state.branches[i].built /\ state.branches[j].built
                       /\ state.branches[i].on_zero # state.branches[i].on_nonzero
                       /\ LoopBlocks(i) \subseteq 0..(Len(llvm_basic_blocks(program)) - 1)
                       /\ state.branches[j].on_nonzero = state.branches[i].on_nonzero
                       /\ state.branches[j].on_zero = state.branches[i].on_zero
              /\ \A i \in 1..Len(program), k \in 1..Len(program) :
                    (i # k /\ program[i] = JumpIfZero /\ program[k] = JumpIfZero) =>
                       LoopBlocks(i) \cap LoopBlocks(k) = {}

\* A loop inside a loop, both emitted.
C28_Witness ==
    /\ LlvmAt("returned") /\ Balanced(program)
    /\ \E i \in 1..Len(program), k \in 1..Len(program), j \in 1..Len(program) :
          /\ i < k /\ k < j /\ IsLoop(program, i, j) /\ program[k] = JumpIfZero
          /\ state.branches[k].from = state.branches[i].on_nonzero
          /\ state.branches[j].on_zero = state.branches[i].on_zero

(***************************************************************************)
(* compile.rs: the scan kernel of compile_to_asm, one turn of its loop at  *)
(* a time.  k holds the registers: rax, the base the gather adds the index *)
(* table to; r12, the head; mask, what vpmovmskb delivered in the turn     *)
(* before; lane, tzcntl's result shifted right by two; gathered, the       *)
(* addresses of the eight lanes, lane 0 first; looping, whether je goes    *)
(* back to the label.                                                      *)
(***************************************************************************)
MaxStride == 2
ScanRadius == 4

ScanAddr == (0 - ScanRadius)..ScanRadius

\* What the index table would be without the .rev() of line 433.
scan_indices_ascending(x) == [i \in 1..8 |-> (i - 1) * Abs(x)]

\* Lines 428-436: the eight .long entries of _ymm@indices, ascending for a
\* scan to the right and (0..8).rev() for a scan to the left.
scan_indices(x) ==
    IF x >= 0 THEN [i \in 1..8 |-> (i - 1) * Abs(x)]
    ELSE [i \in 1..8 |-> (8 - i) * Abs(x)]

\* Lines 443-447 and 467-474: the instructions before the loop label.
scan_kernel_entry(r12, x) ==
    LET rax == IF x >= 0 THEN r12 ELSE r12 - 7 * Abs(x)
    IN [rax |-> rax, r12 |-> rax, mask |-> 0, lane |-> 0,
        gathered |-> <<>>, looping |-> TRUE]

\* Lines 451-465 and 478-495: the loop body.
scan_kernel_turn(mem, k, x) ==
    LET indices == scan_indices(x)
        abs_scan == Abs(x)
        bytes_per_iter == 8 * abs_scan
        mask == lane_mask(mem, k.rax, indices, 0)
        lane == tzcnt32(mask) \div 4
        gathered == [i \in 1..8 |-> k.rax + indices[i]]
    IN IF x >= 0
         THEN [rax |-> k.rax + bytes_per_iter, r12 |-> k.rax + lane * abs_scan,
               mask |-> mask, lane |-> lane, gathered |-> gathered, looping |-> mask = 0]
         ELSE LET r9 == (k.rax - lane * abs_scan) + 7 * abs_scan
                  rax == IF mask # 0 THEN r9 ELSE k.rax - bytes_per_iter
              IN [rax |-> rax, r12 |-> rax,
                  mask |-> mask, lane |-> lane, gathered |-> gathered, looping |-> mask = 0]

ScanEntries ==
    {asm_entry(mem, head) : mem \in [ScanAddr -> {0, 1}], head \in ScanAddr}

ScanStrides == ((0 - MaxStride)..MaxStride) \ {0}

ScanAt(run) == phase.at = "scan" /\ phase.run = run

ScanInit ==
    /\ \E x \in ScanStrides : program = <<Scan(x)>>
    /\ input = program
    /\ machine \in ScanEntries
    /\ reference = [entry |-> machine, after |-> machine]
    /\ phase = [at |-> "scan", run |-> "entry"]
    /\ source = <<>>
    /\ state = NoState
    /\ emitted_insts = <<>>
    /\ io = NoIO

ScanEnter ==
    /\ ScanAt("entry")
    /\ state' = scan_kernel_entry(machine.r12, program[1].a)
    /\ phase' = [phase EXCEPT !.run = "loop"]
    /\ UNCHANGED <<source, program, input, machine, reference, emitted_insts, io>>

ScanTurn ==
    /\ ScanAt("loop")
    /\ state.looping
    /\ state' = scan_kernel_turn(machine.mem, state, program[1].a)
    /\ UNCHANGED <<phase, source, program, input, machine, reference, emitted_insts, io>>

\* je falls through: vzeroupper, and the next instruction's code.
ScanLeave ==
    /\ ScanAt("loop")
    /\ ~state.looping
    /\ machine' = asm_head(machine, state.r12)
    /\ phase' = [phase EXCEPT !.run = "done"]
    /\ UNCHANGED <<source, program, input, reference, state, emitted_insts, io>>

ScanNext == ScanEnter \/ ScanTurn \/ ScanLeave

SpecScan == ScanInit /\ [][ScanNext]_vars

(***************************************************************************)
(* C29: the kernel emitted for Scan(s), s positive or negative, looks in   *)
(* every turn of its loop at eight cells, |s| apart, from the window's     *)
(* first cell on in the direction of the scan; the matched lane is the     *)
(* count of trailing zeros of the 32-bit byte mask shifted right by two;   *)
(* without a match the window moves on by 8*|s|; and the kernel leaves the *)
(* head at head + k*s for the least k >= 0 whose cell is 0.                *)
(***************************************************************************)
ScanStride == program[1].a

\* The window's first cell: the one nearest to the head the scan began at.
ScanWindow(rax) == IF ScanStride >= 0 THEN rax ELSE rax + 7 * Abs(ScanStride)

ScanCell(n) == MemAt(machine.mem, reference.entry.r12 + n * ScanStride)

ScanTurnExamines ==
    ScanAt("loop") /\ state' # state =>
        LET w == ScanWindow(state.rax)
        IN /\ state'.gathered = [i \in 1..8 |-> w + (i - 1) * ScanStride]
           /\ state'.lane = tzcnt32(state'.mask) \div 4
           /\ state'.mask = 0 <=> \A i \in 1..8 : MemAt(machine.mem, state'.gathered[i]) # 0
           /\ IF state'.mask = 0
                THEN /\ state'.looping
                     /\ ScanWindow(state'.rax) = w + 8 * ScanStride
                ELSE /\ ~state'.looping
                     /\ state'.lane \in 0..7
                     /\ state'.r12 = w + state'.lane * ScanStride
                     /\ MemAt(machine.mem, state'.r12) = 0
                     /\ \A i \in 1..state'.lane : MemAt(machine.mem, state'.gathered[i]) # 0

ScanLeavesHeadOnFirstZero ==
    ScanAt("done") =>
        \E k \in 0..(4 * ScanRadius + 16) :
            /\ machine.r12 = reference.entry.r12 + k * ScanStride
            /\ ScanCell(k) = 0
            /\ \A n \in 0..(k - 1) : ScanCell(n) # 0
            /\ machine.r12 = scan_kernel(machine.mem, reference.entry.r12, ScanStride)
            /\ machine.mem = reference.entry.mem

C29_ScanKernelFindsFirstZero ==
    [](ScanLeavesHeadOnFirstZero) /\ [][ScanTurnExamines]_vars

\* A scan to the left that finds nothing in its first window.
C29_Witness ==
    /\ ScanAt("done") /\ ScanStride < 0
    /\ reference.entry.r12 - machine.r12 >= 8 * Abs(ScanStride)
    /\ state.lane > 0

(***************************************************************************)
(* C30: the vector State::partial_eval returns is a prefix followed by     *)
(* program[pc..] unchanged, pc being the program counter after the         *)
(* restore; the prefix, which is the emitted buffer and the tape-restore   *)
(* preamble, holds no JumpIfZero and no JumpUnlessZero; and for a balanced *)
(* program pc is the program's length or the index of a JumpIfZero with no *)
(* loop around it, so that the returned vector is balanced.                *)
(***************************************************************************)
IsBracket(inst) == inst \in {JumpIfZero, JumpUnlessZero}

C30_ResidualIsPrefixThenTail ==
    [][PartialEvalReturns =>
          LET pc == state.program_counter
              tail == UnexecutedTail(state)
              cut == Len(program') - Len(tail)
          IN /\ state'.program_counter = pc
             /\ cut >= Len(emitted_insts)
             /\ SubSeq(program', 1, Len(emitted_insts)) = emitted_insts
             /\ SubSeq(program', cut + 1, Len(program')) = tail
             /\ \A k \in 1..cut : ~IsBracket(program'[k])
             /\ Balanced(state.program) =>
                   /\ \/ pc = Len(state.program)
                      \/ /\ pc < Len(state.program)
                         /\ At(state.program, pc) = JumpIfZero
                         /\ NestingDepth(state) = 0
                   /\ Balanced(program')]_vars

\* >++[->,[->+<]]>. : left inside the inner loop, restored to the outer
\* loop's JumpIfZero, which the returned vector starts its tail with.
C30_Witness ==
    /\ Returned
    /\ state.loop_enter_state.live
    /\ state.program_counter > 0 /\ state.program_counter < Len(state.program)
    /\ At(state.program, state.program_counter) = JumpIfZero
    /\ \E k \in 1..Len(program) :
          /\ program[k] = JumpIfZero
          /\ SubSeq(program, k, Len(program)) = UnexecutedTail(state)
          /\ \A m \in 1..(k - 1) : ~IsBracket(program[m])
    /\ Len(SelectSeq(program, IsBracket)) = 4

(***************************************************************************)
(* C31: while State::interp runs, head_pos - tape_offset is the number of  *)
(* MoveRight executed so far minus the number of MoveLeft executed so far; *)
(* and a move, in interp or in partial_eval, never changes what a logical  *)
(* position holds: the cell at tape index q + tape_offset after the move   *)
(* is the cell that was at logical position q before it, every cell the    *)
(* move adds is 0, and logical position 0 stays inside the tape.           *)
(***************************************************************************)
LogicalHead(st) == st.head_pos - st.tape_offset

LogicalPositions(st) == (0 - st.tape_offset)..(Len(st.tape) - 1 - st.tape_offset)

LogicalCell(st, q) == At(st.tape, q + st.tape_offset)

RECURSIVE Executed(_, _, _)
Executed(st, inst, k) ==
    IF k > Len(st.program) THEN 0
    ELSE (IF st.program[k] = inst THEN st.execution_counter[k] ELSE 0)
            + Executed(st, inst, k + 1)

HeadCountsMoves ==
    (phase.at = "eval" /\ phase.run = "interp") =>
        /\ ~state.panicked =>
              LogicalHead(state) = Executed(state, MoveRight, 1) - Executed(state, MoveLeft, 1)
        /\ 0 \in LogicalPositions(state)

MoveKeepsLogicalCells ==
    /\ Dispatches(MoveRight) => LogicalHead(state') = LogicalHead(state) + 1
    /\ Dispatches(MoveLeft) => LogicalHead(state') = LogicalHead(state) - 1
    /\ Dispatches(MoveRight) \/ Dispatches(MoveLeft) =>
          /\ LogicalPositions(state) \subseteq LogicalPositions(state')
          /\ \A q \in LogicalPositions(state') :
                LogicalCell(state', q) =
                    IF q \in LogicalPositions(state) THEN LogicalCell(state, q) ELSE 0
    /\ \A inst \in Primitives \ {MoveRight, MoveLeft} :
          Dispatches(inst) /\ ~state'.panicked /\ phase'.run = phase.run =>
              /\ LogicalHead(state') = LogicalHead(state)
              /\ state'.tape_offset = state.tape_offset

SortedByExecutions(v) ==
    \A k \in 1..Len(v), m \in 1..Len(v) :
        k < m =>
            \/ v[k].num_times_executed > v[m].num_times_executed
            \/ v[k].num_times_executed = v[m].num_times_executed /\ v[k].pc < v[m].pc

CountsTheBody(l) ==
    l.num_times_executed =
        IF Len(l.insts) > 2 THEN At(state.execution_counter, l.pc + 1) ELSE 0

C32_LoopsSortedByExecutions ==
    Profiled =>
        \A v \in {reference.simple_loops, reference.complex_loops} :
            /\ SortedByExecutions(v)
            /\ \A k \in 1..Len(v) : CountsTheBody(v[k])

\* +[-]++[-]+[-] : the loop run twice comes first, the two run once follow
\* in program order.
C32_Witness ==
    /\ Profiled
    /\ Len(reference.simple_loops) = 3
    /\ reference.simple_loops[1].num_times_executed = 2 /\ reference.simple_loops[1].pc = 6
    /\ reference.simple_loops[2].num_times_executed = 1 /\ reference.simple_loops[2].pc = 1
    /\ reference.simple_loops[3].num_times_executed = 1 /\ reference.simple_loops[3].pc = 10

(***************************************************************************)
(* C33: for a bracket-balanced program the records of the two vectors      *)
(* get_loop_executions returns are the innermost loops, one record each:   *)
(* their number is the number of loops whose body holds no jump, every     *)
(* record's pc is the index of such a loop's JumpIfZero, and a loop that   *)
(* encloses another loop is in neither vector.                             *)
(***************************************************************************)
InnermostLoops(p) ==
    {i \in 1..Len(p) :
        \E j \in 1..Len(p) :
            IsLoop(p, i, j) /\ \A k \in (i + 1)..(j - 1) : ~IsBracket(p[k])}

EnclosingLoops(p) ==
    {i \in 1..Len(p) :
        \E j \in 1..Len(p) :
            IsLoop(p, i, j) /\ \E k \in (i + 1)..(j - 1) : IsBracket(p[k])}

RecordedLoops ==
    {LoopOpen(reference.simple_loops[k]) : k \in 1..Len(reference.simple_loops)}
        \cup {LoopOpen(reference.complex_loops[k]) : k \in 1..Len(reference.complex_loops)}

C33_OnlyInnermostLoopsRecorded ==
    (Profiled /\ Balanced(program)) =>
        /\ Len(reference.simple_loops) + Len(reference.complex_loops)
              = Cardinality(InnermostLoops(program))
        /\ RecordedLoops = InnermostLoops(program)
        /\ RecordedLoops \cap EnclosingLoops(program) = {}

\* A loop around a loop, and another loop behind them.
C33_Witness ==
    /\ Profiled /\ Balanced(program)
    /\ EnclosingLoops(program) # {}
    /\ Cardinality(RecordedLoops) >= 2
    /\ \E i \in EnclosingLoops(program), k \in RecordedLoops : i < k

(***************************************************************************)
(* C34: when State::interp has halted on a bracket-balanced program, the   *)
(* execution counter of every JumpIfZero equals the execution counter of   *)
(* its matching JumpUnlessZero.                                            *)
(***************************************************************************)
InterpHalted ==
    /\ phase.at = "eval" /\ phase.run = "interp"
    /\ ~state.panicked
    /\ state.program_counter >= Len(state.program)

C34_BracketsDispatchedEqually ==
    (InterpHalted /\ Balanced(state.program)) =>
        \A i \in 1..Len(state.program), j \in 1..Len(state.program) :
            IsLoop(state.program, i, j) =>
                state.execution_counter[i] = state.execution_counter[j]

\* A loop whose back-edge was taken: both brackets dispatched once per test
\* of the cell, the body once per turn (test_execution_counter).
C34_Witness ==
    /\ InterpHalted /\ Balanced(state.program)
    /\ \E i \in 1..Len(state.program), j \in 1..Len(state.program) :
          /\ IsLoop(state.program, i, j) /\ j > i + 1
          /\ state.execution_counter[i] >= 2
          /\ state.execution_counter[j] = state.execution_counter[i]
          /\ \A k \in (i + 1)..(j - 1) :
                state.execution_counter[k] = state.execution_counter[i]

(***************************************************************************)
(* C35: as long as the main loop of State::partial_eval runs on a          *)
(* bracket-balanced program, up to and including the state it aborts in,   *)
(* loop_level >= 0, loop_enter_state is Some if and only if                *)
(* loop_level > 0, and loop_level is the number of loops around the        *)
(* instruction at program_counter; it goes up by one when a JumpIfZero is  *)
(* executed, down by one when a JumpUnlessZero is executed, and no other   *)
(* instruction changes it.  The snapshot restore after an abort moves      *)
(* program_counter and leaves loop_level and loop_enter_state as they are. *)
(***************************************************************************)
InPartialEval == phase.at = "eval" /\ phase.run \in {"partial_eval", "break", "restored"}

InMainLoop == phase.at = "eval" /\ phase.run \in {"partial_eval", "break"}

SnapshotIffInLoop(st) ==
    /\ st.loop_level >= 0
    /\ st.loop_enter_state.live <=> st.loop_level > 0

\* The statement for every state partial_eval reaches, the loop whose
\* JumpIfZero is at program_counter counted as enclosing or not.
C35_LoopLevelCountsOpenLoops ==
    (InPartialEval /\ Balanced(state.program) /\ ~state.panicked) =>
        /\ SnapshotIffInLoop(state)
        /\ state.loop_level >= NestingDepth(state)
        /\ state.loop_level <= NestingDepth(state)
                                  + (IF state.program_counter < Len(state.program)
                                        /\ At(state.program, state.program_counter) = JumpIfZero
                                       THEN 1 ELSE 0)

LoopLevelInMainLoop ==
    (InMainLoop /\ Balanced(state.program) /\ ~state.panicked) =>
        /\ SnapshotIffInLoop(state)
        /\ state.loop_level = NestingDepth(state)

LoopLevelFollowsBrackets ==
    /\ PartialEvalDispatches(JumpIfZero) /\ phase'.run = "partial_eval" =>
          state'.loop_level = state.loop_level + 1
    /\ PartialEvalDispatches(JumpUnlessZero) /\ phase'.run = "partial_eval" =>
          state'.loop_level = state.loop_level - 1
    /\ \A inst \in Primitives \ {JumpIfZero, JumpUnlessZero} :
          PartialEvalDispatches(inst) => state'.loop_level = state.loop_level
    /\ InMainLoop /\ phase'.run = "restored" =>
          /\ state'.loop_level = state.loop_level
          /\ state'.loop_enter_state = state.loop_enter_state
          /\ SnapshotIffInLoop(state')

C35_LoopLevelCountsOpenLoopsInMainLoop ==
    [](LoopLevelInMainLoop) /\ [][LoopLevelFollowsBrackets]_vars

\* +[[,]] after the restore: program_counter is back on the outer
\* JumpIfZero, loop_level is still the 2 of the abort.
C35_Witness ==
    /\ phase.at = "eval" /\ phase.run = "restored"
    /\ state.program = <<Increment, JumpIfZero, JumpIfZero, Read, JumpUnlessZero, JumpUnlessZero>>
    /\ state.program_counter = 1
    /\ state.loop_level = 2
    /\ state.loop_enter_state.live

(***************************************************************************)
(* C36: simplify_loops and vectorize_scans are each idempotent: a pass     *)
(* applied to the program the same pass has just returned changes nothing. *)
(***************************************************************************)
SamePassAgain ==
    /\ phase.at = "rewrite"
    /\ phase.passes # <<>>
    /\ Len(phase'.passes) = Len(phase.passes) + 1
    /\ phase'.passes[Len(phase'.passes)] = phase.passes[Len(phase.passes)]

C36_PassesAreIdempotent == [][SamePassAgain => program' = program]_vars

\* A loop around a committed loop after the second simplify_loops, and a
\* loop around a scan after the second vectorize_scans.
C36_Witness ==
    /\ phase.at = "rewrite"
    /\ Len(phase.passes) = 2 /\ phase.passes[1] = phase.passes[2]
    /\ program # input
    /\ program[1] = JumpIfZero
    /\ \E k \in 2..Len(program) : program[k].op \in {"Zero", "Scan"}

(***************************************************************************)
(* C37: for every program of primitive opcodes, simplify_loops followed by *)
(* vectorize_scans (the order of compile_to_asm) and vectorize_scans       *)
(* followed by simplify_loops return the same program, and no loop of the  *)
(* program is rewritten by both passes.                                    *)
(***************************************************************************)
OfPrimitives(p) == \A k \in 1..Len(p) : p[k] \in Primitives

AfterBothPasses ==
    /\ phase.at = "rewrite"
    /\ phase.passes \in {<<"simplify_loops", "vectorize_scans">>,
                         <<"vectorize_scans", "simplify_loops">>}

C37_PassesCommute ==
    (AfterBothPasses /\ OfPrimitives(input)) =>
        /\ phase.passes[1] = "simplify_loops" =>
              program = simplify_loops(vectorize_scans(input))
        /\ phase.passes[1] = "vectorize_scans" =>
              program = vectorize_scans(simplify_loops(input))
        /\ \A i \in 1..Len(input), j \in 1..Len(input) :
              IsLoop(input, i, j) =>
                 \/ simplify_loops(input)[i] = JumpIfZero
                 \/ vectorize_scans(input)[i] = JumpIfZero

\* A loop of moves around a counted loop, vectorize_scans first: only the
\* inner loop is rewritten, by simplify_loops.
C37_Witness ==
    /\ AfterBothPasses /\ OfPrimitives(input)
    /\ phase.passes[1] = "vectorize_scans"
    /\ \E i \in 1..Len(input), j \in 1..Len(input) :
          /\ IsLoop(input, i, j) /\ input[i + 1] = MoveRight /\ input[i + 2] = JumpIfZero
          /\ program[i] = JumpIfZero /\ program[i + 1] = MoveRight
          /\ program[i + 2] = Zero

(***************************************************************************)
(* C38: when simplify_loops commits a loop in slots start_pc..pc, the last *)
(* slot it writes an opcode other than Nop to, start_pc plus the number of *)
(* Add/Sub copies, is at most pc; the pass changes no slot outside the     *)
(* committed ranges and never indexes outside the program.                 *)
(***************************************************************************)
\* The commits of one pass over prog, in the order the pass makes them:
\* the range and the slot the Zero is written to.
RECURSIVE commits_from(_, _, _)
commits_from(st, pc, commits) ==
    IF pc >= Len(st.program) \/ st.panicked THEN commits
    ELSE LET l == st.curr_loop
             committing == /\ At(st.program, pc) = JumpUnlessZero
                           /\ st.in_loop
                           /\ commit_conditions(l)
             copies == loop_insts(l.ptr_changes[0] = -1, Sorted(DOMAIN l.ptr_changes),
                                  l.ptr_changes)
         IN commits_from(simplify_loops_step(st, pc), pc + 1,
                         IF committing
                           THEN Append(commits, [start_pc |-> l.start_pc, pc |-> pc,
                                                 write_pc |-> l.start_pc + Len(copies)])
                           ELSE commits)

Commits(prog) ==
    commits_from([program |-> prog, in_loop |-> FALSE,
                  curr_loop |-> LoopState(0, 0, EmptyMap), panicked |-> FALSE], 0, <<>>)

InCommit(prog, slot) ==
    \E n \in 1..Len(Commits(prog)) :
        Commits(prog)[n].start_pc <= slot /\ slot <= Commits(prog)[n].pc

C38_CommitWritesInsideTheLoop ==
    AfterSimplifyOnly =>
        /\ ~simplify_loops_run(input).panicked
        /\ \A n \in 1..Len(Commits(input)) :
              LET c == Commits(input)[n]
              IN /\ c.write_pc <= c.pc
                 /\ c.pc < Len(input)
                 /\ At(program, c.write_pc) = Zero
                 /\ \A slot \in (c.write_pc + 1)..c.pc : At(program, slot) = Nop
        /\ \A slot \in 0..(Len(input) - 1) :
              ~InCommit(input, slot) => At(program, slot) = At(input, slot)

\* test_decrement_loop_add_sub: eight copies and the Zero in a loop of 27.
C38_Witness ==
    /\ AfterSimplifyOnly
    /\ Len(Commits(input)) = 1
    /\ Commits(input)[1] = [start_pc |-> 0, pc |-> 26, write_pc |-> 8]
    /\ At(program, 7) = Sub(7) /\ At(program, 8) = Zero /\ At(program, 26) = Nop

(***************************************************************************)
(* C39: partial_eval returns on every bracket-balanced program on which    *)
(* interp halts for some input.  Each step of its main loop other than the *)
(* abort is the step interp takes from any concrete state that agrees with *)
(* the evaluator's on program counter, head, tape extent and every known   *)
(* cell, whatever the unknown cells hold and whatever is read, so the      *)
(* steps before the abort or the end of the program are a prefix of every  *)
(* concrete run.                                                           *)
(***************************************************************************)
\* partial_eval's loop is run to its exit and the function to its return.
SpecEvalFair ==
    /\ SpecEval
    /\ WF_vars(PartialEvalStep)
    /\ WF_vars(PartialEvalRestore)
    /\ WF_vars(PartialEvalReturn)

\* What a cell the evaluator marks Unknown may hold in a concrete run.
ConcreteBytes == InputBytes \cup {255}

\* The tapes of concrete runs a tape of the evaluator stands for.
RECURSIVE ConcreteTapes(_)
ConcreteTapes(tape) ==
    IF tape = <<>> THEN {<<>>}
    ELSE LET cells == IF Head(tape) = Unknown THEN ConcreteBytes ELSE {Head(tape)}
         IN {<<cell>> \o rest : cell \in cells, rest \in ConcreteTapes(Tail(tape))}

ConcreteStates(st) == {[st EXCEPT !.tape = tape] : tape \in ConcreteTapes(st.tape)}

\* The evaluator's state a stands for the concrete state c.
Abstracts(a, c) ==
    /\ ~c.panicked
    /\ a.program_counter = c.program_counter
    /\ a.head_pos = c.head_pos
    /\ a.tape_offset = c.tape_offset
    /\ Len(a.tape) = Len(c.tape)
    /\ \A idx \in 1..Len(a.tape) : a.tape[idx] = Unknown \/ a.tape[idx] = c.tape[idx]

AllReadResults == {[eof |-> FALSE, byte |-> b] : b \in InputBytes} \cup {[eof |-> TRUE, byte |-> 0]}

PartialEvalStepIsInterpStep ==
    PartialEvalStep =>
        IF phase'.run = "break"
          THEN /\ At(state.program, state.program_counter) \in {JumpIfZero, JumpUnlessZero}
               /\ cell_at_head(state) = Unknown
               /\ state' = state
          ELSE \A c \in ConcreteStates(state), read_res \in AllReadResults :
                  Abstracts(state', interp_step(c, read_res))

PartialEvalLeadsToReturn ==
    (phase.at = "eval" /\ phase.run = "partial_eval") ~> (phase.run = "residual")

C39_PartialEvalTerminates ==
    /\ [][PartialEvalStepIsInterpStep]_vars
    /\ PartialEvalLeadsToReturn

\* ++[>+<-]>. : interp has halted, and the evaluator has run the loop on
\* known cells to the end of the program.
C39_Witness ==
    /\ phase.at = "eval" /\ phase.run = "restored"
    /\ input = <<Increment, Increment, JumpIfZero, MoveRight, Increment, MoveLeft, Decrement,
                 JumpUnlessZero, MoveRight, Write>>
    /\ state.program_counter = Len(state.program)
    /\ state.tape = <<0, 2>>
    /\ emitted_insts = <<Output(2)>>
====
